---------------------------- MODULE Spec2Model ----------------------------
(***************************************************************************)
(* A model of the detection-to-redaction interval pipeline of the          *)
(* audio-analysis repository:                                              *)
(*                                                                         *)
(*   analyze()                 src/analyze_audio.py   (chunked transcript) *)
(*   analyze_video()           src/audio_scripts/analyze_video.py          *)
(*   edit_media_with_ffmpeg()  src/edit_audio.py                           *)
(*   edit_video()              src/audio_scripts/edit_video.py             *)
(*                                                                         *)
(* Each function is a sequential process; the module holds one             *)
(* specification per process (SpecAnalyze, SpecVideo, SpecEdit).  The      *)
(* variables of the processes a specification does not run stay at their   *)
(* idle values.                                                            *)
(*                                                                         *)
(* Times of the audio process are whole seconds.  Times of the video       *)
(* process are milliseconds, and the frame rates and sampling intervals    *)
(* are chosen so that every timestamp frame/fps is a whole number of       *)
(* milliseconds and a multiple of 1/8 s: these values are exact in binary  *)
(* floating point, so the arithmetic of the code is the arithmetic here.   *)
(***************************************************************************)
EXTENDS Integers, Sequences, FiniteSets, TLC

VARIABLES
    \* ---- analyze() ----
    apc,              \* position of analyze()
    total_duration,   \* analyze_audio.py:174
    total_chunks,     \* analyze_audio.py:175
    chunk_index,      \* the loop variable i of analyze_audio.py:181
    requests,         \* the decode requests issued to load_audio_chunk, in order
    transcripts,      \* the word lists model.transcribe returned, chunk-local times
    results,          \* the word records of the result objects as the loop leaves them
    all_words,        \* analyze_audio.py:179; all_words_data of parse_dump.py:66
    ppc,              \* position of parse_dump_file()
    banned_words,     \* analyze_audio.py:161, parse_dump.py:54
    found_words,      \* analyze_audio.py:218, parse_dump.py:90
    \* ---- the file at output_csv_path of analyze(), parse_dump_file()
    \* ---- and analyze_for_topics()
    review_rows,      \* the data rows of the file
    review_exists,    \* whether the file exists
    review_writes,    \* number of to_csv calls made
    \* ---- analyze_for_topics() ----
    tpc,              \* position of analyze_for_topics()
    topics,           \* find_topics.py:61
    topic_words,      \* all_words of find_topics.py:106
    text_chunks,      \* find_topics.py:116
    topic_results,    \* what the classifier returned per segment, with its top score and label
    found_topics,     \* find_topics.py:141
    \* ---- format_time() and get_unique_filepath() ----
    fpc,              \* position of the format_time call
    seconds,          \* the argument of format_time, milliseconds
    formatted,        \* the string format_time returned, as its characters
    upc,              \* position of get_unique_filepath()
    existing,         \* the candidate paths that exist: 0 is filepath, k is stem-k-suffix
    counter,          \* analyze_audio.py:72
    unique_path,      \* the candidate get_unique_filepath returned
    \* ---- dump_transcription() and the line pattern of parse_dump_file() ----
    dpc,              \* position of the dump and its reading
    dump_words,       \* all_words of dump_transcription.py:78
    dump_lines,       \* the lines of the file at output_txt_path
    dump_parsed,      \* all_words_data of parse_dump.py:66
    \* ---- analyze_video() ----
    vpc,              \* position of analyze_video()
    fps,              \* analyze_video.py:59
    total_frames,     \* analyze_video.py:60
    duration,         \* analyze_video.py:61, milliseconds
    readable_frames,  \* the number of frames cap.read() delivers before it fails
    frame_interval,   \* parameter, milliseconds
    threshold,        \* parameter, percent
    frame_step,       \* analyze_video.py:63
    current_frame,    \* analyze_video.py:72
    visited,          \* the frame indices read so far, in order
    detected,         \* what detector.detect returned for each frame read, in order
    found_nudity,     \* analyze_video.py:67
    ranges,           \* analyze_video.py:118
    csv_rows,         \* the data rows written to output_csv_path
    csv_exists,       \* whether output_csv_path exists
    cap_released,     \* analyze_video.py:107
    \* ---- edit_media_with_ffmpeg() / edit_video() ----
    epc,              \* position of the edit function
    tool,             \* which function runs: "edit_audio" or "edit_video"
    media,            \* the input media: its extension and whether it holds video
    artifact,         \* the review CSV: exists, columns, rows
    out_ext,          \* the extension of output_path
    start_col,        \* edit_audio.py:70/73 (with end_col)
    command,          \* the engine's argument list
    filter,           \* the time windows of the filter argument, in order
    invocations,      \* number of subprocess.run calls made
    engine_result,    \* how the engine ended
    output_exists,    \* whether a file exists at output_path
    outcome,          \* how the function ended: "returned", "raised", "exit"
    printed           \* the console messages printed (tags)

analyzeVars == <<apc, total_duration, total_chunks, chunk_index, requests,
                 transcripts, results, all_words, ppc, banned_words,
                 found_words>>
outVars     == <<review_rows, review_exists, review_writes>>
topicVars   == <<tpc, topics, topic_words, text_chunks, topic_results,
                 found_topics>>
utilVars    == <<fpc, seconds, formatted, upc, existing, counter, unique_path>>
dumpVars    == <<dpc, dump_words, dump_lines, dump_parsed>>
videoVars   == <<vpc, fps, total_frames, duration, readable_frames, frame_interval,
                 threshold, frame_step, current_frame, visited, detected,
                 found_nudity, ranges, csv_rows, csv_exists, cap_released>>
editVars    == <<epc, tool, media, artifact, out_ext, start_col, command,
                 filter, invocations, engine_result, output_exists, outcome,
                 printed>>
vars == <<analyzeVars, outVars, topicVars, utilVars, dumpVars, videoVars,
          editVars>>

\* What a process leaves alone: the variables of the others.
exceptAnalyze == <<topicVars, utilVars, dumpVars, videoVars, editVars>>
exceptTopics  == <<analyzeVars, utilVars, dumpVars, videoVars, editVars>>
exceptUtil    == <<analyzeVars, outVars, topicVars, dumpVars, videoVars, editVars>>
exceptDump    == <<analyzeVars, outVars, topicVars, utilVars, videoVars, editVars>>
exceptVideo   == <<analyzeVars, outVars, topicVars, utilVars, dumpVars, editVars>>
exceptEdit    == <<analyzeVars, outVars, topicVars, utilVars, dumpVars, videoVars>>

(***************************************************************************)
(* Bounds of the model.                                                    *)
(***************************************************************************)
MaxChunks == 3          \* durations stay below MaxChunks * CHUNK_DURATION
MaxWords  == 2          \* words one transcription returns at most
MaxFrames == 3          \* frames a video holds (reported or readable) at most
MaxDet    == 2          \* detections the detector returns for one frame at most
MaxRows   == 2          \* data rows of a review artifact at most
MaxProbe  == 4          \* media times 0..MaxProbe at which a filter is probed
MaxPad    == 6          \* filler lines before and after the core of a dump file at most
MaxCore   == 2          \* lines of the core of a dump file at most
MaxTopicWords == 4      \* words the transcription of analyze_for_topics holds at most
MaxFiles  == 6          \* the candidate paths 0..MaxFiles may exist
MaxTokens == 2          \* tokens a dumped transcription holds at most

(***************************************************************************)
(* Helpers.                                                                *)
(***************************************************************************)
Min(a, b) == IF a <= b THEN a ELSE b
Max(a, b) == IF a >= b THEN a ELSE b

SeqsUpTo(S, n) == UNION {[1..k -> S] : k \in 0..n}

(***************************************************************************)
(*                             format_time()                               *)
(***************************************************************************)
DigitChars == <<"0", "1", "2", "3", "4", "5", "6", "7", "8", "9">>

\* The decimal digits of a natural number, as characters.
RECURSIVE Digits(_)
Digits(n) ==
    IF n < 10 THEN <<DigitChars[n + 1]>>
    ELSE Digits(n \div 10) \o <<DigitChars[(n % 10) + 1]>>

\* The format specification 02d.
Pad2(n) == IF n < 10 THEN <<"0">> \o Digits(n) ELSE Digits(n)

\* Faulty variant: the hours wrap at 24.
FormatTimeWrapped(ms) ==
    LET total_seconds == ms \div 1000
        hours   == (total_seconds \div 3600) % 24
        minutes == (total_seconds % 3600) \div 60
        secs    == total_seconds % 60
    IN Pad2(hours) \o <<":">> \o Pad2(minutes) \o <<":">> \o Pad2(secs)
\* format_time of analyze_audio.py, parse_dump.py, find_topics.py and
\* dump_transcription.py; the argument is in milliseconds.
FormatTime(ms) ==
    LET total_seconds == ms \div 1000
        hours   == total_seconds \div 3600
        minutes == (total_seconds % 3600) \div 60
        secs    == total_seconds % 60
    IN Pad2(hours) \o <<":">> \o Pad2(minutes) \o <<":">> \o Pad2(secs)

\* format_time of analyze_video.py: two divmod calls on the float, int()
\* of each part.
FormatTimeDivmod(ms) ==
    LET m0 == ms \div 60000
        s  == ms % 60000
        h  == m0 \div 60
        m  == m0 % 60
    IN Pad2(h) \o <<":">> \o Pad2(m) \o <<":">> \o Pad2(s \div 1000)

(***************************************************************************)
(*                    texts, banned words and matching                     *)
(***************************************************************************)
\* A text is a sequence of pieces: a run of letters, a whitespace character
\* or a punctuation character.
Whitespace == {" "}
Punctuation == {"!"}

LowerPiece(c) == IF c = "Bad" THEN "bad" ELSE c
LowerText(t) == [k \in 1..Len(t) |-> LowerPiece(t[k])]

\* str.strip(chars): the leading and the trailing pieces of the set go.
StripChars(t, S) ==
    LET keep == {k \in 1..Len(t) : t[k] \notin S}
    IN IF keep = {} THEN <<>>
       ELSE SubSeq(t, CHOOSE k \in keep : \A j \in keep : k <= j,
                      CHOOSE k \in keep : \A j \in keep : k >= j)

\* The contents a banned-words file may have, as its lines: an empty file,
\* a file of one blank line, one word, and a file with an upper-case letter
\* and a blank line.
WordFiles ==
    { <<>>,
      << <<" ">> >>,
      << <<"bad", "word">> >>,
      << <<"Bad">>, <<" ">>, <<"null">> >> }

\* analyze_audio.py:161, parse_dump.py:54
BannedWords(lines) ==
    { LowerText(StripChars(lines[k], Whitespace)) :
        k \in {j \in 1..Len(lines) : StripChars(lines[j], Whitespace) # <<>>} }

\* Faulty variant: the punctuation stays.
WordToCheckKeepPunctuation(w) == LowerText(StripChars(w, Whitespace))
\* analyze_audio.py:225
WordToCheck(w) ==
    StripChars(LowerText(StripChars(w, Whitespace)), Punctuation)

\* parse_dump.py:93
DumpWordToCheck(w) == StripChars(LowerText(w), Punctuation)

\* " ".join(texts)
RECURSIVE JoinTexts(_)
JoinTexts(ts) ==
    IF ts = <<>> THEN <<>>
    ELSE IF Len(ts) = 1 THEN ts[1]
    ELSE ts[1] \o <<" ">> \o JoinTexts(Tail(ts))

\* Faulty variant: the window ends one token early.
ContextOfShort(all, i) ==
    LET start_idx == Max(0, (i - 1) - 5)
        end_idx   == Min(Len(all), (i - 1) + 5)
    IN JoinTexts([k \in 1..(end_idx - start_idx) |-> all[start_idx + k].word])
\* The context of the word at position i (positions count from 1 here, from
\* 0 in the code): analyze_audio.py:228-231, parse_dump.py:96-99.
ContextOf(all, i) ==
    LET start_idx == Max(0, (i - 1) - 5)
        end_idx   == Min(Len(all), (i - 1) + 6)
    IN JoinTexts([k \in 1..(end_idx - start_idx) |-> all[start_idx + k].word])

\* analyze_audio.py:233-239, parse_dump.py:101-107
WordRow(all, i) ==
    [start         |-> all[i].start,
     hms_timestamp |-> FormatTime(all[i].start * 1000),
     end           |-> all[i].end,
     word          |-> all[i].word,
     context       |-> ContextOf(all, i)]

\* Faulty variant: a match that overlaps or touches an earlier match gets
\* no row of its own.
RowsAtDisjoint(all, idx) ==
    LET own == {i \in idx : \A j \in idx : j < i => all[j].end < all[i].start}
        nth(k) == CHOOSE i \in own : Cardinality({j \in own : j < i}) = k - 1
    IN [k \in 1..Cardinality(own) |-> WordRow(all, nth(k))]
\* The rows of the positions idx, in the order of the positions.
RowsAt(all, idx) ==
    LET nth(k) == CHOOSE i \in idx : Cardinality({j \in idx : j < i}) = k - 1
    IN [k \in 1..Cardinality(idx) |-> WordRow(all, nth(k))]

\* The matching loop of analyze(), analyze_audio.py:221-239
FoundWords(all, banned) ==
    RowsAt(all, {i \in 1..Len(all) : WordToCheck(all[i].word) \in banned})

\* The matching loop of parse_dump_file(), parse_dump.py:91-107
DumpFoundWords(all, banned) ==
    RowsAt(all, {i \in 1..Len(all) : DumpWordToCheck(all[i].word) \in banned})

(***************************************************************************)
(*             the word-schema file: DataFrame.to_csv, pd.read_csv         *)
(***************************************************************************)
\* repr of a float with a whole value, as to_csv writes it: digits, ".0".
FloatText(n) == Digits(n) \o <<".", "0">>

\* to_csv of a row of the word schema: the cells of the line, as texts, in
\* the column order of analyze_audio.py:248 and parse_dump.py:116.
ToCsvRow(row) ==
    [start         |-> FloatText(row.start),
     hms_timestamp |-> row.hms_timestamp,
     end           |-> FloatText(row.end),
     word          |-> row.word,
     context       |-> row.context]

ToCsv(rows) == [k \in 1..Len(rows) |-> ToCsvRow(rows[k])]

\* The value of a digit character.
DigitValue(c) == (CHOOSE d \in 1..10 : DigitChars[d] = c) - 1

IsDigit(c) == \E d \in 1..10 : DigitChars[d] = c

\* The number the digits denote.
RECURSIVE DigitsValue(_)
DigitsValue(t) ==
    IF t = <<>> THEN 0
    ELSE 10 * DigitsValue(SubSeq(t, 1, Len(t) - 1)) + DigitValue(t[Len(t)])

\* A cell that holds digits, a point and zeros.
IsWholeFloatText(t) ==
    \E d \in 1..Len(t) :
        /\ t[d] = "."
        /\ d > 1
        /\ \A k \in 1..(d - 1) : IsDigit(t[k])
        /\ d < Len(t)
        /\ \A k \in (d + 1)..Len(t) : t[k] = "0"

\* The cell texts pd.read_csv takes for a missing value (of its default
\* list: "", "NA", "N/A", "NULL", "NaN", "n/a", "nan", "null", ...).
NaValues == { <<>>, <<"null">> }

\* pd.read_csv of one cell, edit_audio.py:68: a missing value, a float or
\* the text.
ReadCsvCell(t) ==
    IF t \in NaValues THEN [kind |-> "NaN", num |-> 0, text |-> <<>>]
    ELSE IF IsWholeFloatText(t)
         THEN [kind |-> "float",
               num  |-> DigitsValue(SubSeq(t, 1,
                           (CHOOSE d \in 1..Len(t) : t[d] = ".") - 1)),
               text |-> <<>>]
         ELSE [kind |-> "str", num |-> 0, text |-> t]

ReadCsv(lines) ==
    [k \in 1..Len(lines) |->
        [c \in {"start", "hms_timestamp", "end", "word", "context"} |->
            ReadCsvCell(lines[k][c])]]

\* Faulty variant: a list without entries is not told from one with entries.
NoEntriesNever(n) == FALSE
\* "not banned_words", "not topics" for a collection of n entries:
\* analyze_audio.py:163, parse_dump.py:55, find_topics.py:62
NoEntries(n) == n = 0

\* Faulty variant: the list is never taken for empty.
NothingFoundNever(rows) == FALSE
\* "not found_words", "not found_topics": analyze_audio.py:241,
\* parse_dump.py:109, find_topics.py:160
NothingFound(rows) == rows = <<>>

(***************************************************************************)
(*                              analyze()                                  *)
(***************************************************************************)
CHUNK_DURATION == 1800

\* The durations ffprobe may report: at, just after, in the middle of and
\* just before a chunk boundary.
Durations ==
    {c * CHUNK_DURATION + d : c \in 0..(MaxChunks - 1), d \in {0, 1, 900, 1799}}

\* The words a transcription may return, with chunk-local times.  The
\* transcriber puts a space in front of a word.
WordPool ==
    { [word |-> <<"hello">>,                 start |-> 0,    end |-> 1],
      [word |-> <<" ", "Bad", "word", "!">>, start |-> 1799, end |-> 1800] }

\* The word lists a transcription may return: the words are in the order
\* of their times, each starting after the one before.
Transcripts ==
    { t \in SeqsUpTo(WordPool, MaxWords) :
        \A k \in 1..(Len(t) - 1) : t[k].start < t[k + 1].start }

\* Faulty variant: the chunk count without the + 1.
TotalChunksFloor(D) == D \div CHUNK_DURATION
TotalChunks(D) == (D \div CHUNK_DURATION) + 1

ChunkOffset(i) == i * CHUNK_DURATION

DecodeRequest(i) == [start_time |-> ChunkOffset(i), duration |-> CHUNK_DURATION]

\* Faulty variant: only the end of the word is rebased.
RebaseWordEndOnly(w, offset) == [w EXCEPT !.end = @ + offset]
RebaseWord(w, offset) ==
    [w EXCEPT !.start = @ + offset, !.end = @ + offset]

Rebase(ws, offset) == [k \in 1..Len(ws) |-> RebaseWord(ws[k], offset)]

\* Faulty variant: the matching starts after the first chunk.
AfterChunkEarly(i, n) == "matching"
\* Where analyze() goes after chunk i of n: the for loop of line 181.
AfterChunk(i, n) == IF i + 1 < n THEN "chunk_loop" ELSE "matching"

InitAnalyze ==
    /\ apc = "load_words"
    /\ total_duration = 0
    /\ total_chunks = 0
    /\ chunk_index = 0
    /\ requests = <<>>
    /\ transcripts = <<>>
    /\ all_words = <<>>
    /\ banned_words = {}
    /\ found_words = <<>>
    /\ review_rows = <<>>
    /\ review_exists = FALSE
    /\ review_writes = 0
    \* the other processes are idle
    /\ ppc = "idle"
    /\ tpc = "idle"
    /\ topic_results = <<>>
    /\ topics = <<>>
    /\ topic_words = <<>>
    /\ text_chunks = <<>>
    /\ found_topics = <<>>
    /\ fpc = "idle"
    /\ seconds = 0
    /\ formatted = <<>>
    /\ upc = "idle"
    /\ existing = {}
    /\ counter = 0
    /\ unique_path = -1
    /\ vpc = "idle"
    /\ frame_interval = 0
    /\ threshold = 0
    /\ fps = 0
    /\ total_frames = 0
    /\ duration = 0
    /\ readable_frames = 0
    /\ frame_step = 0
    /\ current_frame = 0
    /\ visited = <<>>
    /\ found_nudity = <<>>
    /\ ranges = <<>>
    /\ csv_rows = <<>>
    /\ csv_exists = FALSE
    /\ cap_released = FALSE
    /\ epc = "idle"
    /\ tool = "none"
    /\ media = [ext |-> "", has_video |-> FALSE]
    /\ artifact = [exists |-> FALSE, columns |-> {}, rows |-> <<>>]
    /\ out_ext = ""
    /\ start_col = "none"
    /\ command = <<>>
    /\ filter = <<>>
    /\ invocations = 0
    /\ engine_result = "none"
    /\ output_exists = FALSE
    /\ outcome = "running"
    /\ printed = {}
    /\ results = <<>>
    /\ detected = <<>>
    /\ dpc = "idle"
    /\ dump_words = <<>>
    /\ dump_lines = <<>>
    /\ dump_parsed = <<>>

\* The banned words are read; an empty set ends the run: lines 160-165.
LoadWords ==
    /\ apc = "load_words"
    /\ \E f \in WordFiles :
         /\ banned_words' = BannedWords(f)
         /\ apc' = IF NoEntries(Cardinality(BannedWords(f)))
                   THEN "no_words" ELSE "start"
    /\ UNCHANGED <<total_duration, total_chunks, chunk_index, requests,
                   transcripts, results, all_words, ppc, found_words>>
    /\ UNCHANGED outVars
    /\ UNCHANGED exceptAnalyze

\* get_audio_duration succeeds; the chunk count is computed.
GetDuration ==
    /\ apc = "start"
    /\ \E D \in Durations :
         /\ total_duration' = D
         /\ total_chunks' = TotalChunks(D)
    /\ apc' = "chunk_loop"
    /\ UNCHANGED <<chunk_index, requests, transcripts, results, all_words, ppc,
                   banned_words, found_words>>
    /\ UNCHANGED outVars
    /\ UNCHANGED exceptAnalyze

\* get_audio_duration fails: sys.exit(1).
GetDurationFail ==
    /\ apc = "start"
    /\ apc' = "exited"
    /\ UNCHANGED <<total_duration, total_chunks, chunk_index, requests,
                   transcripts, results, all_words, ppc, banned_words, found_words>>
    /\ UNCHANGED outVars
    /\ UNCHANGED exceptAnalyze

\* One iteration of the chunk loop: decode, transcribe, rebase, append.
ProcessChunk ==
    /\ apc = "chunk_loop"
    /\ chunk_index < total_chunks
    /\ requests' = Append(requests, DecodeRequest(chunk_index))
    /\ \E result \in Transcripts :
         /\ transcripts' = Append(transcripts, result)
         /\ results' = Append(results, Rebase(result, ChunkOffset(chunk_index)))
         /\ all_words' = all_words \o Rebase(result, ChunkOffset(chunk_index))
    /\ chunk_index' = chunk_index + 1
    /\ apc' = AfterChunk(chunk_index, total_chunks)
    /\ UNCHANGED <<total_duration, total_chunks, ppc, banned_words, found_words>>
    /\ UNCHANGED outVars
    /\ UNCHANGED exceptAnalyze

\* load_audio_chunk raises CalledProcessError: the run aborts.
LoadChunkFail ==
    /\ apc = "chunk_loop"
    /\ chunk_index < total_chunks
    /\ requests' = Append(requests, DecodeRequest(chunk_index))
    /\ apc' = "aborted"
    /\ UNCHANGED <<total_duration, total_chunks, chunk_index, transcripts, results,
                   all_words, ppc, banned_words, found_words>>
    /\ UNCHANGED outVars
    /\ UNCHANGED exceptAnalyze

\* The chunk is decoded and model.transcribe raises: the run aborts.
TranscribeFail ==
    /\ apc = "chunk_loop"
    /\ chunk_index < total_chunks
    /\ requests' = Append(requests, DecodeRequest(chunk_index))
    /\ apc' = "aborted_transcribe"
    /\ UNCHANGED <<total_duration, total_chunks, chunk_index, transcripts, results,
                   all_words, ppc, banned_words, found_words>>
    /\ UNCHANGED outVars
    /\ UNCHANGED exceptAnalyze

\* The matching loop; without a match the run ends: lines 218-243.
FindMatches ==
    /\ apc = "matching"
    /\ found_words' = FoundWords(all_words, banned_words)
    /\ apc' = IF NothingFound(FoundWords(all_words, banned_words))
              THEN "returned" ELSE "saving"
    /\ UNCHANGED <<total_duration, total_chunks, chunk_index, requests,
                   transcripts, results, all_words, ppc, banned_words>>
    /\ UNCHANGED outVars
    /\ UNCHANGED exceptAnalyze

\* The review file is written: lines 247-249.
SaveReview ==
    /\ apc = "saving"
    /\ review_rows' = found_words
    /\ review_exists' = TRUE
    /\ review_writes' = review_writes + 1
    /\ apc' = "done"
    /\ UNCHANGED <<total_duration, total_chunks, chunk_index, requests,
                   transcripts, results, all_words, ppc, banned_words, found_words>>
    /\ UNCHANGED exceptAnalyze

NextAnalyze ==
    \/ LoadWords
    \/ GetDuration
    \/ GetDurationFail
    \/ ProcessChunk
    \/ LoadChunkFail
    \/ TranscribeFail
    \/ FindMatches
    \/ SaveReview

(***************************************************************************)
(*                           parse_dump_file()                             *)
(***************************************************************************)
\* A word that matches no banned word; the k-th differs from the others.
FillerText(k) == <<"w" \o ToString(k)>>

\* The lines of a dump file: a line the pattern of parse_dump.py:68 matches
\* carries the text of its third group, any other line is skipped.
DumpLinePool ==
    { [ok |-> TRUE,  text |-> <<"bad", "word">>],
      [ok |-> TRUE,  text |-> <<"Bad", "word", "!", " ">>],
      [ok |-> TRUE,  text |-> <<"null">>],
      [ok |-> TRUE,  text |-> <<"bad">>],
      [ok |-> FALSE, text |-> <<>>] }

\* n filler lines, numbered from+1 .. from+n
FillerLines(from, n) ==
    [k \in 1..n |-> [ok |-> TRUE, text |-> FillerText(from + k)]]

\* The dump files: up to MaxCore lines of the pool between up to MaxPad
\* filler lines on either side.
DumpFiles ==
    { FillerLines(0, a) \o core \o FillerLines(a, b) :
        a \in 0..MaxPad, b \in 0..MaxPad,
        core \in SeqsUpTo(DumpLinePool, MaxCore) }

\* The times of the k-th line: a filler word ends where the next line
\* starts, a word of the pool one second later.
DumpLineTimes(line, k) ==
    [start |-> k - 1,
     end   |-> IF line \in DumpLinePool THEN k + 1 ELSE k]

\* parse_dump.py:72-79
ParseDumpLines(lines) ==
    LET hits == {k \in 1..Len(lines) : lines[k].ok}
        nth(n) == CHOOSE k \in hits : Cardinality({j \in hits : j < k}) = n - 1
    IN [n \in 1..Cardinality(hits) |->
          [start |-> DumpLineTimes(lines[nth(n)], nth(n)).start,
           end   |-> DumpLineTimes(lines[nth(n)], nth(n)).end,
           word  |-> StripChars(lines[nth(n)].text, Whitespace)]]

InitParse ==
    /\ ppc = "load_words"
    /\ all_words = <<>>
    /\ banned_words = {}
    /\ found_words = <<>>
    /\ review_rows = <<>>
    /\ review_exists = FALSE
    /\ review_writes = 0
    \* the other processes are idle
    /\ apc = "idle"
    /\ total_duration = 0
    /\ total_chunks = 0
    /\ chunk_index = 0
    /\ requests = <<>>
    /\ transcripts = <<>>
    /\ tpc = "idle"
    /\ topic_results = <<>>
    /\ topics = <<>>
    /\ topic_words = <<>>
    /\ text_chunks = <<>>
    /\ found_topics = <<>>
    /\ fpc = "idle"
    /\ seconds = 0
    /\ formatted = <<>>
    /\ upc = "idle"
    /\ existing = {}
    /\ counter = 0
    /\ unique_path = -1
    /\ vpc = "idle"
    /\ frame_interval = 0
    /\ threshold = 0
    /\ fps = 0
    /\ total_frames = 0
    /\ duration = 0
    /\ readable_frames = 0
    /\ frame_step = 0
    /\ current_frame = 0
    /\ visited = <<>>
    /\ found_nudity = <<>>
    /\ ranges = <<>>
    /\ csv_rows = <<>>
    /\ csv_exists = FALSE
    /\ cap_released = FALSE
    /\ epc = "idle"
    /\ tool = "none"
    /\ media = [ext |-> "", has_video |-> FALSE]
    /\ artifact = [exists |-> FALSE, columns |-> {}, rows |-> <<>>]
    /\ out_ext = ""
    /\ start_col = "none"
    /\ command = <<>>
    /\ filter = <<>>
    /\ invocations = 0
    /\ engine_result = "none"
    /\ output_exists = FALSE
    /\ outcome = "running"
    /\ printed = {}
    /\ results = <<>>
    /\ detected = <<>>
    /\ dpc = "idle"
    /\ dump_words = <<>>
    /\ dump_lines = <<>>
    /\ dump_parsed = <<>>

parseIdle == <<apc, total_duration, total_chunks, chunk_index, requests,
               transcripts, results>>

\* The banned words are read; an empty set ends the run: lines 53-57.
DumpLoadWords ==
    /\ ppc = "load_words"
    /\ \E f \in WordFiles :
         /\ banned_words' = BannedWords(f)
         /\ ppc' = IF NoEntries(Cardinality(BannedWords(f)))
                   THEN "no_words" ELSE "parse"
    /\ UNCHANGED <<parseIdle, all_words, found_words>>
    /\ UNCHANGED outVars
    /\ UNCHANGED exceptAnalyze

\* The banned-words file is missing: lines 58-60.
DumpWordsMissing ==
    /\ ppc = "load_words"
    /\ ppc' = "words_missing"
    /\ UNCHANGED <<parseIdle, all_words, banned_words, found_words>>
    /\ UNCHANGED outVars
    /\ UNCHANGED exceptAnalyze

\* The dump file is parsed; without an entry the run ends: lines 70-86.
DumpParse ==
    /\ ppc = "parse"
    /\ \E d \in DumpFiles :
         /\ all_words' = ParseDumpLines(d)
         /\ ppc' = IF ParseDumpLines(d) = <<>> THEN "no_entries" ELSE "matching"
    /\ UNCHANGED <<parseIdle, banned_words, found_words>>
    /\ UNCHANGED outVars
    /\ UNCHANGED exceptAnalyze

\* The dump file is missing: lines 80-82.
DumpFileMissing ==
    /\ ppc = "parse"
    /\ ppc' = "dump_missing"
    /\ UNCHANGED <<parseIdle, all_words, banned_words, found_words>>
    /\ UNCHANGED outVars
    /\ UNCHANGED exceptAnalyze

\* The matching loop; without a match the run ends: lines 90-111.
DumpFindMatches ==
    /\ ppc = "matching"
    /\ found_words' = DumpFoundWords(all_words, banned_words)
    /\ ppc' = IF NothingFound(DumpFoundWords(all_words, banned_words))
              THEN "returned" ELSE "saving"
    /\ UNCHANGED <<parseIdle, all_words, banned_words>>
    /\ UNCHANGED outVars
    /\ UNCHANGED exceptAnalyze

\* The review file is written: lines 115-117.
DumpSave ==
    /\ ppc = "saving"
    /\ review_rows' = found_words
    /\ review_exists' = TRUE
    /\ review_writes' = review_writes + 1
    /\ ppc' = "done"
    /\ UNCHANGED <<parseIdle, all_words, banned_words, found_words>>
    /\ UNCHANGED exceptAnalyze

NextParse ==
    \/ DumpLoadWords
    \/ DumpWordsMissing
    \/ DumpParse
    \/ DumpFileMissing
    \/ DumpFindMatches
    \/ DumpSave

(***************************************************************************)
(*                          analyze_for_topics()                           *)
(***************************************************************************)
\* The contents a topics file may have, as its lines.
TopicFiles ==
    { <<>>,
      << <<" ">> >>,
      << <<"violence">>, <<" ">>, <<"politics", " ">> >> }

\* find_topics.py:61: the stripped lines that are not blank, in order.
TopicsOf(lines) ==
    LET hits == {k \in 1..Len(lines) : StripChars(lines[k], Whitespace) # <<>>}
        nth(n) == CHOOSE k \in hits : Cardinality({j \in hits : j < k}) = n - 1
    IN [n \in 1..Cardinality(hits) |-> StripChars(lines[nth(n)], Whitespace)]

\* The lengths of a word, in seconds: three of the first make 90 seconds,
\* the last alone is longer.
WordLengths == {30, 45, 91}

RECURSIVE SumTo(_, _)
SumTo(ds, k) == IF k = 0 THEN 0 ELSE SumTo(ds, k - 1) + ds[k]

\* The words of a transcription: each word starts where the one before
\* ends; the transcriber puts a space in front of a word.
WordsOfLengths(ds) ==
    [k \in 1..Len(ds) |->
        [word  |-> <<" ", "w" \o ToString(k)>>,
         start |-> SumTo(ds, k - 1),
         end   |-> SumTo(ds, k)]]

TopicTranscripts == {WordsOfLengths(ds) : ds \in SeqsUpTo(WordLengths, MaxTopicWords)}

chunk_duration == 90

\* Faulty variant: a span of exactly chunk_duration closes the segment.
ExceedsChunkOrEqual(end, chunk_start_time) ==
    end - chunk_start_time >= chunk_duration
\* find_topics.py:122
ExceedsChunk(end, chunk_start_time) ==
    end - chunk_start_time > chunk_duration

\* The loop of find_topics.py:120-129 from word k on, and the rest chunk of
\* lines 131-136.
RECURSIVE SegmentFrom(_, _, _, _, _)
SegmentFrom(ws, k, chunk_start_time, current_chunk_text, acc) ==
    IF k > Len(ws)
    THEN IF current_chunk_text # <<>>
         THEN Append(acc, [start |-> chunk_start_time,
                           end   |-> ws[Len(ws)].end,
                           text  |-> StripChars(current_chunk_text, Whitespace)])
         ELSE acc
    ELSE LET text == current_chunk_text \o ws[k].word \o <<" ">>
         IN IF ExceedsChunk(ws[k].end, chunk_start_time)
            THEN SegmentFrom(ws, k + 1, ws[k].end, <<>>,
                     Append(acc, [start |-> chunk_start_time,
                                  end   |-> ws[k].end,
                                  text  |-> StripChars(text, Whitespace)]))
            ELSE SegmentFrom(ws, k + 1, chunk_start_time, text, acc)

\* find_topics.py:115-136
Segment(ws) == SegmentFrom(ws, 1, ws[1].start, <<>>, <<>>)

\* Scores of the classifier, in hundredths of a percent.
confidence_threshold == 7000
Scores == {6999, 7000}

\* What the classifier may return for a segment (find_topics.py:145): the
\* candidate labels ranked by score, the scores descending and adding up to
\* 1; the score of the first label is drawn from Scores, the others share
\* the rest.
ClassifierResults(tps) ==
    LET n == Len(tps)
        rankings == {p \in [1..n -> 1..n] : \A i, j \in 1..n : i # j => p[i] # p[j]}
    IN  { [labels |-> [i \in 1..n |-> tps[p[i]]],
           scores |-> [i \in 1..n |->
                         IF i = 1 THEN s ELSE (10000 - s) \div (n - 1)]] :
            p \in rankings, s \in Scores }

\* The format specification .2% for a score in hundredths of a percent.
Percent2(score) ==
    Digits(score \div 100) \o <<".">> \o Pad2(score % 100) \o <<"%">>

\* Faulty variant: the score has to exceed the threshold.
TopicAcceptedStrict(score) == score > confidence_threshold
\* find_topics.py:150
TopicAccepted(score) == score >= confidence_threshold

\* find_topics.py:151-158
TopicRow(chunk, score, label) ==
    [start_seconds |-> chunk.start,
     hms_timestamp |-> FormatTime(chunk.start * 1000),
     end_seconds   |-> chunk.end,
     topic         |-> label,
     confidence    |-> Percent2(score),
     text_segment  |-> chunk.text]

InitTopics ==
    /\ tpc = "load_topics"
    /\ topics = <<>>
    /\ topic_words = <<>>
    /\ text_chunks = <<>>
    /\ topic_results = <<>>
    /\ found_topics = <<>>
    /\ review_rows = <<>>
    /\ review_exists = FALSE
    /\ review_writes = 0
    \* the other processes are idle
    /\ apc = "idle"
    /\ total_duration = 0
    /\ total_chunks = 0
    /\ chunk_index = 0
    /\ requests = <<>>
    /\ transcripts = <<>>
    /\ all_words = <<>>
    /\ ppc = "idle"
    /\ banned_words = {}
    /\ found_words = <<>>
    /\ fpc = "idle"
    /\ seconds = 0
    /\ formatted = <<>>
    /\ upc = "idle"
    /\ existing = {}
    /\ counter = 0
    /\ unique_path = -1
    /\ vpc = "idle"
    /\ frame_interval = 0
    /\ threshold = 0
    /\ fps = 0
    /\ total_frames = 0
    /\ duration = 0
    /\ readable_frames = 0
    /\ frame_step = 0
    /\ current_frame = 0
    /\ visited = <<>>
    /\ found_nudity = <<>>
    /\ ranges = <<>>
    /\ csv_rows = <<>>
    /\ csv_exists = FALSE
    /\ cap_released = FALSE
    /\ epc = "idle"
    /\ tool = "none"
    /\ media = [ext |-> "", has_video |-> FALSE]
    /\ artifact = [exists |-> FALSE, columns |-> {}, rows |-> <<>>]
    /\ out_ext = ""
    /\ start_col = "none"
    /\ command = <<>>
    /\ filter = <<>>
    /\ invocations = 0
    /\ engine_result = "none"
    /\ output_exists = FALSE
    /\ outcome = "running"
    /\ printed = {}
    /\ results = <<>>
    /\ detected = <<>>
    /\ dpc = "idle"
    /\ dump_words = <<>>
    /\ dump_lines = <<>>
    /\ dump_parsed = <<>>

\* The topics are read; an empty list ends the run: lines 59-64.
TopicsLoad ==
    /\ tpc = "load_topics"
    /\ \E f \in TopicFiles :
         /\ topics' = TopicsOf(f)
         /\ tpc' = IF NoEntries(Len(TopicsOf(f)))
                   THEN "no_topics" ELSE "transcribe"
    /\ UNCHANGED <<topic_words, text_chunks, topic_results, found_topics>>
    /\ UNCHANGED outVars
    /\ UNCHANGED exceptTopics

\* The topics file is missing: lines 65-67.
TopicsMissing ==
    /\ tpc = "load_topics"
    /\ tpc' = "topics_missing"
    /\ UNCHANGED <<topics, topic_words, text_chunks, topic_results, found_topics>>
    /\ UNCHANGED outVars
    /\ UNCHANGED exceptTopics

\* The audio is transcribed and the words are cut into segments; without
\* a word the run ends: lines 100-136.
TopicsTranscribe ==
    /\ tpc = "transcribe"
    /\ \E ws \in TopicTranscripts :
         /\ topic_words' = ws
         /\ text_chunks' = IF ws = <<>> THEN <<>> ELSE Segment(ws)
         /\ tpc' = IF ws = <<>> THEN "no_words" ELSE "classify"
    /\ UNCHANGED <<topics, topic_results, found_topics>>
    /\ UNCHANGED outVars
    /\ UNCHANGED exceptTopics

\* One iteration of the loop of lines 144-158: the next segment is
\* classified and kept when its top score reaches the threshold.
TopicsClassify ==
    /\ tpc = "classify"
    /\ Len(topic_results) < Len(text_chunks)
    /\ \E res \in ClassifierResults(topics) :
         LET chunk == text_chunks[Len(topic_results) + 1]
             top_score == res.scores[1]
             top_label == res.labels[1]
         IN  /\ topic_results' = Append(topic_results,
                     [top_score |-> top_score, top_label |-> top_label,
                      labels |-> res.labels, scores |-> res.scores])
             /\ found_topics' =
                  IF TopicAccepted(top_score)
                  THEN Append(found_topics, TopicRow(chunk, top_score, top_label))
                  ELSE found_topics
    /\ tpc' = IF Len(topic_results) + 1 < Len(text_chunks)
              THEN "classify" ELSE "classified"
    /\ UNCHANGED <<topics, topic_words, text_chunks>>
    /\ UNCHANGED outVars
    /\ UNCHANGED exceptTopics

\* No segment was kept: lines 160-162.
TopicsNone ==
    /\ tpc = "classified"
    /\ NothingFound(found_topics)
    /\ tpc' = "returned"
    /\ UNCHANGED <<topics, topic_words, text_chunks, topic_results, found_topics>>
    /\ UNCHANGED outVars
    /\ UNCHANGED exceptTopics

\* The review file is written: lines 166-167.
TopicsSave ==
    /\ tpc = "classified"
    /\ ~NothingFound(found_topics)
    /\ review_rows' = found_topics
    /\ review_exists' = TRUE
    /\ review_writes' = review_writes + 1
    /\ tpc' = "done"
    /\ UNCHANGED <<topics, topic_words, text_chunks, topic_results, found_topics>>
    /\ UNCHANGED exceptTopics

NextTopics ==
    \/ TopicsLoad
    \/ TopicsMissing
    \/ TopicsTranscribe
    \/ TopicsClassify
    \/ TopicsNone
    \/ TopicsSave

(***************************************************************************)
(*                         format_time(), as called                        *)
(***************************************************************************)
\* The arguments of format_time, in milliseconds: hours below and above a
\* day, minutes and seconds at both ends of their range, whole and
\* fractional seconds.
FormatInputs ==
    { h * 3600000 + m * 60000 + sec * 1000 + f :
        h \in {0, 1, 25, 100}, m \in {0, 1, 59}, sec \in {0, 1, 5, 59},
        f \in {0, 500, 999} }

InitFormat ==
    /\ fpc = "call"
    /\ seconds \in FormatInputs
    /\ formatted = <<>>
    \* the other processes are idle
    /\ apc = "idle"
    /\ total_duration = 0
    /\ total_chunks = 0
    /\ chunk_index = 0
    /\ requests = <<>>
    /\ transcripts = <<>>
    /\ all_words = <<>>
    /\ banned_words = {}
    /\ found_words = <<>>
    /\ review_rows = <<>>
    /\ review_exists = FALSE
    /\ review_writes = 0
    /\ ppc = "idle"
    /\ tpc = "idle"
    /\ topic_results = <<>>
    /\ topics = <<>>
    /\ topic_words = <<>>
    /\ text_chunks = <<>>
    /\ found_topics = <<>>
    /\ upc = "idle"
    /\ existing = {}
    /\ counter = 0
    /\ unique_path = -1
    /\ vpc = "idle"
    /\ frame_interval = 0
    /\ threshold = 0
    /\ fps = 0
    /\ total_frames = 0
    /\ duration = 0
    /\ readable_frames = 0
    /\ frame_step = 0
    /\ current_frame = 0
    /\ visited = <<>>
    /\ found_nudity = <<>>
    /\ ranges = <<>>
    /\ csv_rows = <<>>
    /\ csv_exists = FALSE
    /\ cap_released = FALSE
    /\ epc = "idle"
    /\ tool = "none"
    /\ media = [ext |-> "", has_video |-> FALSE]
    /\ artifact = [exists |-> FALSE, columns |-> {}, rows |-> <<>>]
    /\ out_ext = ""
    /\ start_col = "none"
    /\ command = <<>>
    /\ filter = <<>>
    /\ invocations = 0
    /\ engine_result = "none"
    /\ output_exists = FALSE
    /\ outcome = "running"
    /\ printed = {}
    /\ results = <<>>
    /\ detected = <<>>
    /\ dpc = "idle"
    /\ dump_words = <<>>
    /\ dump_lines = <<>>
    /\ dump_parsed = <<>>

\* A call of format_time of analyze_audio.py, parse_dump.py, find_topics.py
\* or dump_transcription.py.
FormatTimeCall ==
    /\ fpc = "call"
    /\ formatted' = FormatTime(seconds)
    /\ fpc' = "returned"
    /\ UNCHANGED <<seconds, upc, existing, counter, unique_path>>
    /\ UNCHANGED exceptUtil

\* A call of format_time of analyze_video.py.
FormatTimeDivmodCall ==
    /\ fpc = "call"
    /\ formatted' = FormatTimeDivmod(seconds)
    /\ fpc' = "returned_divmod"
    /\ UNCHANGED <<seconds, upc, existing, counter, unique_path>>
    /\ UNCHANGED exceptUtil

NextFormat ==
    \/ FormatTimeCall
    \/ FormatTimeDivmodCall

(***************************************************************************)
(*                         get_unique_filepath()                           *)
(***************************************************************************)
\* The candidate paths are numbered: 0 is filepath itself, k >= 1 is
\* parent / stem-k-suffix.  Different numbers are different paths.
\* Faulty variant: the counter skips a candidate.
NextCounterSkip(c) == c + 2
\* analyze_audio.py:79
NextCounter(c) == c + 1

InitUnique ==
    /\ upc = "check"
    /\ existing \in SUBSET (0..MaxFiles)
    /\ counter = 0
    /\ unique_path = -1
    \* the other processes are idle
    /\ apc = "idle"
    /\ total_duration = 0
    /\ total_chunks = 0
    /\ chunk_index = 0
    /\ requests = <<>>
    /\ transcripts = <<>>
    /\ all_words = <<>>
    /\ banned_words = {}
    /\ found_words = <<>>
    /\ review_rows = <<>>
    /\ review_exists = FALSE
    /\ review_writes = 0
    /\ ppc = "idle"
    /\ tpc = "idle"
    /\ topic_results = <<>>
    /\ topics = <<>>
    /\ topic_words = <<>>
    /\ text_chunks = <<>>
    /\ found_topics = <<>>
    /\ fpc = "idle"
    /\ seconds = 0
    /\ formatted = <<>>
    /\ vpc = "idle"
    /\ frame_interval = 0
    /\ threshold = 0
    /\ fps = 0
    /\ total_frames = 0
    /\ duration = 0
    /\ readable_frames = 0
    /\ frame_step = 0
    /\ current_frame = 0
    /\ visited = <<>>
    /\ found_nudity = <<>>
    /\ ranges = <<>>
    /\ csv_rows = <<>>
    /\ csv_exists = FALSE
    /\ cap_released = FALSE
    /\ epc = "idle"
    /\ tool = "none"
    /\ media = [ext |-> "", has_video |-> FALSE]
    /\ artifact = [exists |-> FALSE, columns |-> {}, rows |-> <<>>]
    /\ out_ext = ""
    /\ start_col = "none"
    /\ command = <<>>
    /\ filter = <<>>
    /\ invocations = 0
    /\ engine_result = "none"
    /\ output_exists = FALSE
    /\ outcome = "running"
    /\ printed = {}
    /\ results = <<>>
    /\ detected = <<>>
    /\ dpc = "idle"
    /\ dump_words = <<>>
    /\ dump_lines = <<>>
    /\ dump_parsed = <<>>

\* filepath does not exist and is returned: lines 66-67.
UniqueOriginal ==
    /\ upc = "check"
    /\ 0 \notin existing
    /\ unique_path' = 0
    /\ upc' = "returned"
    /\ UNCHANGED <<fpc, seconds, formatted, existing, counter>>
    /\ UNCHANGED exceptUtil

\* filepath exists: the search starts with counter = 1, lines 69-72.
UniqueStartSearch ==
    /\ upc = "check"
    /\ 0 \in existing
    /\ counter' = 1
    /\ upc' = "search"
    /\ UNCHANGED <<fpc, seconds, formatted, existing, unique_path>>
    /\ UNCHANGED exceptUtil

\* The candidate of the counter does not exist and is returned: lines 75-78.
UniqueFound ==
    /\ upc = "search"
    /\ counter \notin existing
    /\ unique_path' = counter
    /\ upc' = "returned"
    /\ UNCHANGED <<fpc, seconds, formatted, existing, counter>>
    /\ UNCHANGED exceptUtil

\* The candidate of the counter exists: the next one is tried, line 79.
UniqueNext ==
    /\ upc = "search"
    /\ counter \in existing
    /\ counter' = NextCounter(counter)
    /\ UNCHANGED <<fpc, seconds, formatted, existing, unique_path, upc>>
    /\ UNCHANGED exceptUtil

NextUnique ==
    \/ UniqueOriginal
    \/ UniqueStartSearch
    \/ UniqueFound
    \/ UniqueNext

(***************************************************************************)
(*                            analyze_video()                              *)
(***************************************************************************)
\* Frame rates (frames per second) and sampling intervals (milliseconds).
FpsSet == {1, 2, 8}
FrameIntervals == {125, 250, 1000}
\* Confidence thresholds, in percent (0.5 is the default).
Thresholds == {50, 80}

UnsafeClasses ==
    {"BUTTS", "FEMALE_BREAST", "FEMALE_GENITALIA", "MALE_GENITALIA", "ANUS"}

\* The raw detections the detector may return for a frame: one at the
\* upper threshold, one at the lower (and below the upper), one of a class
\* that is not accepted.
DetPool ==
    { [class |-> "BUTTS",         score |-> 80],
      [class |-> "FEMALE_BREAST", score |-> 50],
      [class |-> "FACE_FEMALE",   score |-> 90] }

\* What the detector may return for a frame: detections of the pool, none
\* of them twice, here in ascending order of their scores.
DetLists ==
    { d \in SeqsUpTo(DetPool, MaxDet) :
        \A i, j \in 1..Len(d) : i < j => d[i].score < d[j].score }

\* Python's order of the class names (sorted()).
ClassRank(c) ==
    CASE c = "ANUS"             -> 1
      [] c = "BUTTS"            -> 2
      [] c = "FACE_FEMALE"      -> 3
      [] c = "FEMALE_BREAST"    -> 4
      [] c = "FEMALE_GENITALIA" -> 5
      [] c = "MALE_GENITALIA"   -> 6

\* Faulty variant: a step below 1 is not raised to 1.
FrameStepUnclamped(f, fi) == (f * fi) \div 1000
\* frame_step = int(fps * frame_interval); if frame_step < 1: frame_step = 1
FrameStep(f, fi) == Max(1, (f * fi) \div 1000)

\* current_frame / fps, in milliseconds
Timestamp(frame, f) == (frame * 1000) \div f

\* total_frames / fps, in milliseconds
Duration(frames, f) == (frames * 1000) \div f

\* Faulty variant: a score at the threshold is not accepted.
AcceptedStrict(d, thr) == d.score > thr /\ d.class \in UnsafeClasses
\* analyze_video.py:90-92
Accepted(d, thr) == d.score >= thr /\ d.class \in UnsafeClasses

RECURSIVE Unsafe(_, _)
Unsafe(dets, thr) ==
    IF dets = <<>> THEN <<>>
    ELSE IF Accepted(Head(dets), thr)
         THEN <<Head(dets)>> \o Unsafe(Tail(dets), thr)
         ELSE Unsafe(Tail(dets), thr)

\* The records appended to found_nudity (the box of a detection is stored by
\* the code and never read; it is left out).
NudityRecords(unsafe, ts) ==
    [k \in 1..Len(unsafe) |->
        [timestamp |-> ts, label |-> unsafe[k].class, score |-> unsafe[k].score]]

\* list.sort(key=timestamp): a stable sort, here by insertion.
RECURSIVE InsertByTimestamp(_, _)
InsertByTimestamp(sorted, x) ==
    IF sorted = <<>> THEN <<x>>
    ELSE IF x.timestamp < Head(sorted).timestamp
         THEN <<x>> \o sorted
         ELSE <<Head(sorted)>> \o InsertByTimestamp(Tail(sorted), x)

RECURSIVE SortByTimestamp(_)
SortByTimestamp(s) ==
    IF s = <<>> THEN <<>>
    ELSE InsertByTimestamp(SortByTimestamp(SubSeq(s, 1, Len(s) - 1)), s[Len(s)])

\* curr['timestamp'] - end <= (frame_interval * 1.5)
\* Faulty variant: the gap is 0.5 instead of 1.5 intervals.
WithinGapNarrow(end, ts, fi) == 2 * (ts - end) <= fi
WithinGap(end, ts, fi) == 2 * (ts - end) <= 3 * fi

\* The clustering loop of analyze_video.py:127-138.
RECURSIVE ClusterFrom(_, _, _, _, _, _, _)
ClusterFrom(fn, i, start, end, labels, acc, fi) ==
    IF i > Len(fn)
    THEN Append(acc, [start |-> start, end |-> end, labels |-> labels])
    ELSE IF WithinGap(end, fn[i].timestamp, fi)
         THEN ClusterFrom(fn, i + 1, start, fn[i].timestamp,
                          labels \cup {fn[i].label}, acc, fi)
         ELSE ClusterFrom(fn, i + 1, fn[i].timestamp, fn[i].timestamp,
                          {fn[i].label},
                          Append(acc, [start |-> start, end |-> end,
                                       labels |-> labels]), fi)

Cluster(fn, fi) ==
    IF fn = <<>> THEN <<>>
    ELSE ClusterFrom(fn, 2, fn[1].timestamp, fn[1].timestamp, {fn[1].label},
                     <<>>, fi)

\* f"{x:.2f}" of a non-negative time: the time rounded to hundredths of a
\* second, ties to even (the times of the model are exact binary fractions,
\* so a tie in decimal is a tie of the float).  The result is the number of
\* hundredths the written text denotes.
Fmt2(ms) ==
    LET q == ms \div 10
        r == ms % 10
    IN  IF r < 5 THEN q
        ELSE IF r > 5 THEN q + 1
        ELSE IF q % 2 = 0 THEN q ELSE q + 1

\* Faulty variant: one of the labels only.
SortedLabelsOne(S) == IF S = {} THEN <<>> ELSE <<CHOOSE c \in S : TRUE>>
\* "|".join(sorted(list(lbls))), as the sequence of the joined names.
RECURSIVE SortedLabels(_)
SortedLabels(S) ==
    IF S = {} THEN <<>>
    ELSE LET m == CHOOSE c \in S : \A d \in S : ClassRank(c) <= ClassRank(d)
         IN  <<m>> \o SortedLabels(S \ {m})

SAFETY_BUFFER == 500

\* Faulty variant: the buffer is added to the start.
BufferedStartLate(start) == start + SAFETY_BUFFER
\* s_buf = max(0, start - 0.5); e_buf = min(duration, end + 0.5)
BufferedStart(start) == Max(0, start - SAFETY_BUFFER)
BufferedEnd(end, dur) == Min(dur, end + SAFETY_BUFFER)

CsvRow(r, dur) ==
    [start_seconds |-> Fmt2(BufferedStart(r.start)),
     end_seconds   |-> Fmt2(BufferedEnd(r.end, dur)),
     labels        |-> SortedLabels(r.labels)]

InitVideo ==
    /\ vpc = "open"
    /\ frame_interval \in FrameIntervals
    /\ threshold \in Thresholds
    /\ fps = 0
    /\ total_frames = 0
    /\ duration = 0
    /\ readable_frames = 0
    /\ frame_step = 0
    /\ current_frame = 0
    /\ visited = <<>>
    /\ found_nudity = <<>>
    /\ ranges = <<>>
    /\ csv_rows = <<>>
    /\ csv_exists = FALSE
    /\ cap_released = FALSE
    \* the other processes are idle
    /\ apc = "idle"
    /\ total_duration = 0
    /\ total_chunks = 0
    /\ chunk_index = 0
    /\ requests = <<>>
    /\ transcripts = <<>>
    /\ all_words = <<>>
    /\ ppc = "idle"
    /\ banned_words = {}
    /\ found_words = <<>>
    /\ review_rows = <<>>
    /\ review_exists = FALSE
    /\ review_writes = 0
    /\ tpc = "idle"
    /\ topic_results = <<>>
    /\ topics = <<>>
    /\ topic_words = <<>>
    /\ text_chunks = <<>>
    /\ found_topics = <<>>
    /\ fpc = "idle"
    /\ seconds = 0
    /\ formatted = <<>>
    /\ upc = "idle"
    /\ existing = {}
    /\ counter = 0
    /\ unique_path = -1
    /\ epc = "idle"
    /\ tool = "none"
    /\ media = [ext |-> "", has_video |-> FALSE]
    /\ artifact = [exists |-> FALSE, columns |-> {}, rows |-> <<>>]
    /\ out_ext = ""
    /\ start_col = "none"
    /\ command = <<>>
    /\ filter = <<>>
    /\ invocations = 0
    /\ engine_result = "none"
    /\ output_exists = FALSE
    /\ outcome = "running"
    /\ printed = {}
    /\ results = <<>>
    /\ detected = <<>>
    /\ dpc = "idle"
    /\ dump_words = <<>>
    /\ dump_lines = <<>>
    /\ dump_parsed = <<>>

\* The frame counts the container may report (CAP_PROP_FRAME_COUNT) for a
\* file of r readable frames: the count is a header value that the reads do
\* not depend on; it is right, or it is two frames short.
ReportedFrames(r) == {r, r - 2} \cap Nat

\* The capture opens: the reported frame rate and frame count are read, the
\* duration and the frame step computed.  The loop of the code ends on a
\* failed read, not on the reported count.
OpenVideo ==
    /\ vpc = "open"
    /\ \E f \in FpsSet, r \in 0..MaxFrames :
       \E t \in ReportedFrames(r) :
         /\ fps' = f
         /\ total_frames' = t
         /\ readable_frames' = r
         /\ duration' = Duration(t, f)
         /\ frame_step' = FrameStep(f, frame_interval)
    /\ vpc' = "sampling"
    /\ UNCHANGED <<frame_interval, threshold, current_frame, visited, detected,
                   found_nudity, ranges, csv_rows, csv_exists, cap_released>>
    /\ UNCHANGED exceptVideo

\* The file is missing or cannot be opened: sys.exit(1).
OpenVideoFail ==
    /\ vpc = "open"
    /\ vpc' = "exited"
    /\ UNCHANGED <<fps, total_frames, duration, readable_frames,
                   frame_interval, threshold, frame_step, current_frame,
                   visited, detected, found_nudity, ranges, csv_rows, csv_exists,
                   cap_released>>
    /\ UNCHANGED exceptVideo

\* One iteration of the sampling loop with a successful read.
SampleFrame ==
    /\ vpc = "sampling"
    /\ current_frame < readable_frames
    /\ \E detections \in DetLists :
         LET unsafe == Unsafe(detections, threshold)
         IN  /\ detected' = Append(detected, detections)
             /\ found_nudity' = found_nudity \o
                  NudityRecords(unsafe, Timestamp(current_frame, fps))
    /\ visited' = Append(visited, current_frame)
    /\ current_frame' = current_frame + frame_step
    /\ UNCHANGED <<vpc, fps, total_frames, duration, readable_frames,
                   frame_interval, threshold, frame_step, ranges, csv_rows,
                   csv_exists, cap_released>>
    /\ UNCHANGED exceptVideo

\* The read fails: the loop breaks and the capture is released.
ReadFail ==
    /\ vpc = "sampling"
    /\ ~(current_frame < readable_frames)
    /\ cap_released' = TRUE
    /\ vpc' = "aggregate"
    /\ UNCHANGED <<fps, total_frames, duration, readable_frames,
                   frame_interval, threshold, frame_step, current_frame,
                   visited, detected, found_nudity, ranges, csv_rows, csv_exists>>
    /\ UNCHANGED exceptVideo

\* analyze_video.py:109-155: sort, cluster, buffer and write; or nothing.
WriteReview ==
    /\ vpc = "aggregate"
    /\ IF found_nudity # <<>>
       THEN LET sorted == SortByTimestamp(found_nudity)
                rs == Cluster(sorted, frame_interval)
            IN  /\ found_nudity' = sorted
                /\ ranges' = rs
                /\ csv_rows' = [k \in 1..Len(rs) |-> CsvRow(rs[k], duration)]
                /\ csv_exists' = TRUE
       ELSE UNCHANGED <<found_nudity, ranges, csv_rows, csv_exists>>
    /\ vpc' = "done"
    /\ UNCHANGED <<fps, total_frames, duration, readable_frames,
                   frame_interval, threshold, frame_step, current_frame,
                   visited, detected, cap_released>>
    /\ UNCHANGED exceptVideo

NextVideo ==
    \/ OpenVideo
    \/ OpenVideoFail
    \/ SampleFrame
    \/ ReadFail
    \/ WriteReview

(***************************************************************************)
(*               edit_media_with_ffmpeg() and edit_video()                 *)
(***************************************************************************)
\* video_formats, edit_audio.py:100
VideoFormats == {".mp4", ".mkv", ".mov", ".avi", ".webm"}

MediaExts == {".mp4", ".MKV", ".mp3", ".m4v"}
OutExts == {".mp3", ".MP3", ".mp4", ".xyz"}

\* str.lower() on the extensions of the model.
Lower(e) ==
    CASE e = ".MKV" -> ".mkv"
      [] e = ".MP3" -> ".mp3"
      [] OTHER -> e

Medias == [ext : MediaExts, has_video : BOOLEAN]

\* A CSV cell: a number, or text that float() rejects.
Num(n) == [ok |-> TRUE, v |-> n]
Text == [ok |-> FALSE, v |-> 0]

TimeColumns == {"start", "end", "start_seconds", "end_seconds"}

\* The column sets of the artifacts of the model: the two artifacts the
\* analyzers write for words and for visual ranges, the word columns without
\* hms_timestamp, the topic columns of the repository's test, both pairs
\* together, half of each pair, and none.
ColumnSets ==
    { {"start", "hms_timestamp", "end", "word", "context"},
      {"start", "end", "word", "context"},
      {"start_seconds", "end_seconds", "labels"},
      {"start_seconds", "end_seconds", "topic"},
      {"start", "end", "start_seconds", "end_seconds"},
      {"start", "end_seconds", "labels"},
      {"timestamp", "label"} }

\* The time cells of the rows an artifact may hold, before the restriction
\* to the columns the artifact has.
RowPool ==
    { [c \in TimeColumns |->
          CASE c = "start" -> Num(0) [] c = "end" -> Num(1)
            [] c = "start_seconds" -> Num(2) [] c = "end_seconds" -> Num(3)],
      [c \in TimeColumns |->
          CASE c = "start" -> Num(2) [] c = "end" -> Num(3)
            [] c = "start_seconds" -> Num(0) [] c = "end_seconds" -> Num(2)],
      [c \in TimeColumns |->
          CASE c = "start" -> Text [] c = "end" -> Num(1)
            [] c = "start_seconds" -> Text [] c = "end_seconds" -> Num(3)] }

RowsOf(cols) ==
    SeqsUpTo({[c \in cols \cap TimeColumns |-> p[c]] : p \in RowPool}, MaxRows)

Artifacts ==
    {[exists |-> FALSE, columns |-> {}, rows |-> <<>>]}
    \cup UNION {{[exists |-> TRUE, columns |-> cols, rows |-> rs] :
                    rs \in RowsOf(cols)} : cols \in ColumnSets}

\* edit_audio.py:69-77: the pair of columns the windows are read from, or
\* "none" when the artifact is rejected.
\* Faulty variant: the columns must equal a schema's column set.
StartColExact(cols) ==
    IF cols = {"start", "end", "word", "context"} THEN "start"
    ELSE IF cols = {"start_seconds", "end_seconds", "labels"}
         THEN "start_seconds"
         ELSE "none"
StartCol(cols) ==
    IF {"start", "end"} \subseteq cols THEN "start"
    ELSE IF {"start_seconds", "end_seconds"} \subseteq cols
         THEN "start_seconds"
         ELSE "none"

EndCol(sc) == IF sc = "start" THEN "end" ELSE "end_seconds"

\* df.empty, edit_audio.py:83
\* Faulty variant: the emptiness test never succeeds.
DfEmptyNever(rows) == FALSE
DfEmpty(rows) == Len(rows) = 0

\* edit_audio.py:90-93: one volume filter per row, enabled between the
\* row's start and end.  The text of a number and the number the engine
\* reads from it denote the same value (repr of a float parses back to it).
\* Faulty variant: start and end of the window are swapped.
FilterPartSwapped(row, sc) == [lo |-> row[EndCol(sc)], hi |-> row[sc]]
FilterPart(row, sc) == [lo |-> row[sc], hi |-> row[EndCol(sc)]]

FilterParts(rows, sc) == [k \in 1..Len(rows) |-> FilterPart(rows[k], sc)]

\* edit_audio.py:104-110
StreamArgs(ie) ==
    IF Lower(ie) \in VideoFormats
    THEN <<"-c:v", "copy", "-map", "0:v:0?", "-map", "0:a:0?">>
    ELSE <<"-map", "0:a">>

\* edit_audio.py:113-116
AudioCodec(oe) == IF Lower(oe) = ".mp3" THEN "libmp3lame" ELSE "aac"

\* edit_audio.py:102-124
AudioCommand(m, oe) ==
    <<"ffmpeg", "-threads", "0", "-y", "-i", "<media_path>">>
    \o StreamArgs(m.ext)
    \o <<"-af", "<audio_filter_string>", "-c:a", AudioCodec(oe), "-ac", "2",
         "-b:a", "192k", "<output_path>">>

\* edit_video.py:82-88
VideoCommand ==
    <<"ffmpeg", "-i", "<video_path>", "-vf", "<filter_graph>", "-c:a", "copy",
      "<output_path>">>

\* edit_video.py:59-65: the rows are read in order; float() of a text cell
\* raises ValueError and the row is skipped; a missing column raises
\* KeyError, which nothing catches.
RECURSIVE ParseRanges(_, _)
ParseRanges(cols, rows) ==
    IF rows = <<>> THEN [error |-> FALSE, ranges |-> <<>>]
    ELSE LET row == Head(rows)
             rest == ParseRanges(cols, Tail(rows))
         IN  IF "start_seconds" \notin cols
             THEN [error |-> TRUE, ranges |-> <<>>]
             ELSE IF ~row["start_seconds"].ok THEN rest
             ELSE IF "end_seconds" \notin cols
                  THEN [error |-> TRUE, ranges |-> <<>>]
             ELSE IF ~row["end_seconds"].ok THEN rest
             ELSE IF rest.error THEN rest
             ELSE [error |-> FALSE,
                   ranges |-> <<[lo |-> row["start_seconds"],
                                 hi |-> row["end_seconds"]]>> \o rest.ranges]

\* if not ranges, edit_video.py:67
NoRanges(rs) == rs = <<>>

\* The engine's between(t, min, max): 1 when min <= t <= max, else 0.
between(t, lo, hi) == IF lo.ok /\ hi.ok /\ lo.v <= t /\ t <= hi.v THEN 1 ELSE 0

\* The chain of volume filters mutes at t when one of them is enabled.
MutedAt(t, parts) == \E k \in 1..Len(parts) : between(t, parts[k].lo, parts[k].hi) # 0

\* enable_expr = "+".join(between(...)): the blur is on when the sum is not 0.
RECURSIVE EnableSum(_, _)
EnableSum(t, windows) ==
    IF windows = <<>> THEN 0
    ELSE between(t, Head(windows).lo, Head(windows).hi)
         + EnableSum(t, Tail(windows))

BlurredAt(t, windows) == EnableSum(t, windows) # 0

\* How the engine may end: exit 0 with the output written; exit non-zero
\* with nothing written; exit non-zero after a part of the output was
\* written; the ffmpeg program is not installed.
EngineResults == {"ok", "failed", "failed_partial", "not_installed"}

InitEdit ==
    /\ epc = "start"
    /\ tool \in {"edit_audio", "edit_video"}
    /\ media \in Medias
    /\ artifact \in Artifacts
    /\ out_ext \in OutExts
    /\ start_col = "none"
    /\ command = <<>>
    /\ filter = <<>>
    /\ invocations = 0
    /\ engine_result = "none"
    \* output_path comes from get_unique_filepath: edit_audio.py:152,
    \* edit_video.py:114
    /\ output_exists = FALSE
    /\ outcome = "running"
    /\ printed = {}
    /\ results = <<>>
    /\ detected = <<>>
    /\ dpc = "idle"
    /\ dump_words = <<>>
    /\ dump_lines = <<>>
    /\ dump_parsed = <<>>
    \* the other processes are idle
    /\ apc = "idle"
    /\ total_duration = 0
    /\ total_chunks = 0
    /\ chunk_index = 0
    /\ requests = <<>>
    /\ transcripts = <<>>
    /\ all_words = <<>>
    /\ ppc = "idle"
    /\ banned_words = {}
    /\ found_words = <<>>
    /\ review_rows = <<>>
    /\ review_exists = FALSE
    /\ review_writes = 0
    /\ tpc = "idle"
    /\ topic_results = <<>>
    /\ topics = <<>>
    /\ topic_words = <<>>
    /\ text_chunks = <<>>
    /\ found_topics = <<>>
    /\ fpc = "idle"
    /\ seconds = 0
    /\ formatted = <<>>
    /\ upc = "idle"
    /\ existing = {}
    /\ counter = 0
    /\ unique_path = -1
    /\ vpc = "idle"
    /\ frame_interval = 0
    /\ threshold = 0
    /\ fps = 0
    /\ total_frames = 0
    /\ duration = 0
    /\ readable_frames = 0
    /\ frame_step = 0
    /\ current_frame = 0
    /\ visited = <<>>
    /\ found_nudity = <<>>
    /\ ranges = <<>>
    /\ csv_rows = <<>>
    /\ csv_exists = FALSE
    /\ cap_released = FALSE

Return(tag) ==
    /\ epc' = "done"
    /\ outcome' = "returned"
    /\ printed' = printed \cup {tag}
    /\ UNCHANGED <<command, filter, invocations, engine_result, output_exists>>

\* edit_media_with_ffmpeg up to the call of the engine, edit_audio.py:66-130
EditAudioSynthesize ==
    /\ epc = "start"
    /\ tool = "edit_audio"
    /\ IF ~artifact.exists
       THEN /\ Return("review_not_found")
            /\ UNCHANGED start_col
       ELSE LET sc == StartCol(artifact.columns)
            IN  IF sc = "none"
                THEN /\ Return("bad_columns")
                     /\ UNCHANGED start_col
                ELSE /\ start_col' = sc
                     /\ IF DfEmpty(artifact.rows)
                        THEN Return("review_empty")
                        ELSE /\ filter' = FilterParts(artifact.rows, sc)
                             /\ command' = AudioCommand(media, out_ext)
                             /\ invocations' = invocations + 1
                             /\ epc' = "engine"
                             /\ UNCHANGED <<engine_result, output_exists,
                                            outcome, printed>>
    /\ UNCHANGED <<tool, media, artifact, out_ext>>
    /\ UNCHANGED exceptEdit

\* subprocess.run returns or raises, and the handlers of
\* edit_audio.py:129-139 run.
EditAudioEngineDone ==
    /\ epc = "engine"
    /\ tool = "edit_audio"
    /\ \E r \in EngineResults :
         /\ engine_result' = r
         /\ output_exists' = (r \in {"ok", "failed_partial"})
         /\ printed' = printed \cup
               {CASE r = "ok" -> "success"
                  [] r = "not_installed" -> "ffmpeg_not_found"
                  [] OTHER -> "ffmpeg_failed"}
    /\ outcome' = "returned"
    /\ epc' = "done"
    /\ UNCHANGED <<tool, media, artifact, out_ext, start_col, command, filter,
                   invocations>>
    /\ UNCHANGED exceptEdit

\* edit_video up to the call of the engine, edit_video.py:47-94
EditVideoSynthesize ==
    /\ epc = "start"
    /\ tool = "edit_video"
    /\ IF ~artifact.exists
       THEN /\ epc' = "done"
            /\ outcome' = "exit"
            /\ printed' = printed \cup {"review_not_found"}
            /\ UNCHANGED <<command, filter, invocations>>
       ELSE LET parsed == ParseRanges(artifact.columns, artifact.rows)
            IN  IF parsed.error
                THEN /\ epc' = "done"
                     /\ outcome' = "raised"
                     /\ UNCHANGED <<command, filter, invocations, printed>>
                ELSE IF NoRanges(parsed.ranges)
                THEN /\ epc' = "done"
                     /\ outcome' = "returned"
                     /\ printed' = printed \cup {"no_ranges"}
                     /\ UNCHANGED <<command, filter, invocations>>
                ELSE /\ filter' = parsed.ranges
                     /\ command' = VideoCommand
                     /\ invocations' = invocations + 1
                     /\ epc' = "engine"
                     /\ UNCHANGED <<outcome, printed>>
    /\ UNCHANGED <<tool, media, artifact, out_ext, start_col, engine_result,
                   output_exists>>
    /\ UNCHANGED exceptEdit

\* subprocess.run returns or raises, edit_video.py:93-97: only
\* CalledProcessError is caught.
EditVideoEngineDone ==
    /\ epc = "engine"
    /\ tool = "edit_video"
    /\ \E r \in EngineResults :
         /\ engine_result' = r
         /\ output_exists' = (r \in {"ok", "failed_partial"})
         /\ outcome' = IF r = "not_installed" THEN "raised" ELSE "returned"
         /\ printed' = IF r = "not_installed" THEN printed
                       ELSE printed \cup
                            {IF r = "ok" THEN "video_saved" ELSE "ffmpeg_error"}
    /\ epc' = "done"
    /\ UNCHANGED <<tool, media, artifact, out_ext, start_col, command, filter,
                   invocations>>
    /\ UNCHANGED exceptEdit

NextEdit ==
    \/ EditAudioSynthesize
    \/ EditAudioEngineDone
    \/ EditVideoSynthesize
    \/ EditVideoEngineDone

(***************************************************************************)
(*     dump_transcription() and the line pattern of parse_dump_file()      *)
(***************************************************************************)
\* A line of the dump file is a sequence of pieces: a character, or one of
\* the fixed texts of the format string of dump_transcription.py:93.

\* f"{x:.2f}" of a time in milliseconds, as characters.
Fixed2(ms) ==
    LET h == Fmt2(ms)
    IN  Digits(h \div 100) \o <<".">> \o Pad2(h % 100)

\* The start times of a token, in milliseconds: 0, a minute and a half,
\* just below 100 hours and 100 hours.
DumpStartTimes == {0, 90500, 359999990, 360000000}

\* The tokens a transcription may hold: a word as the transcriber returns
\* it, with a space in front, and a word without one.
DumpTokenPool ==
    { [word |-> w, start |-> s, end |-> s + 250] :
        w \in { <<" ", "hello">>, <<"world">> }, s \in DumpStartTimes }

DumpWordLists == SeqsUpTo(DumpTokenPool, MaxTokens)

\* dump_transcription.py:89-93
DumpLine(word_info) ==
    <<"[">> \o FormatTime(word_info.start) \o <<"]", " (Start: ">>
        \o Fixed2(word_info.start) \o <<", End: ">> \o Fixed2(word_info.end)
        \o <<") ">> \o word_info.word

\* dump_transcription.py:75-76: the title, the rule of 40 signs and the
\* empty line.
DumpHeader ==
    << <<"Full Transcription for: ", "audio.mp3">>,
       <<"========================================">>,
       <<>> >>

\* The lines of the file dump_transcription writes: lines 74-93.
DumpFileOf(ws) ==
    IF ws = <<>>
    THEN DumpHeader \o << <<"No words were transcribed from this audio file.">> >>
    ELSE DumpHeader \o [k \in 1..Len(ws) |-> DumpLine(ws[k])]

\* The class [\d.] of the line pattern.
IsNumChar(c) == IsDigit(c) \/ c = "."

\* The last position of the longest run of [\d.] that starts at position p
\* of the line; p - 1 if there is none.
RECURSIVE NumRunEnd(_, _)
NumRunEnd(line, p) ==
    IF p <= Len(line) /\ IsNumChar(line[p]) THEN NumRunEnd(line, p + 1) ELSE p - 1

\* line_pattern.match(line), parse_dump.py:68 and 73:
\* \[\d{2}:\d{2}:\d{2}\] \(Start: ([\d.]+), End: ([\d.]+)\) (.*)
LineMatch(line) ==
    LET e1 == NumRunEnd(line, 12)
        e2 == NumRunEnd(line, e1 + 2)
    IN  IF /\ Len(line) >= 11
           /\ line[1] = "["
           /\ IsDigit(line[2]) /\ IsDigit(line[3]) /\ line[4] = ":"
           /\ IsDigit(line[5]) /\ IsDigit(line[6]) /\ line[7] = ":"
           /\ IsDigit(line[8]) /\ IsDigit(line[9]) /\ line[10] = "]"
           /\ line[11] = " (Start: "
           /\ e1 >= 12
           /\ Len(line) >= e1 + 1
           /\ line[e1 + 1] = ", End: "
           /\ e2 >= e1 + 2
           /\ Len(line) >= e2 + 1
           /\ line[e2 + 1] = ") "
        THEN [ok |-> TRUE,
              g1 |-> SubSeq(line, 12, e1),
              g2 |-> SubSeq(line, e1 + 2, e2),
              g3 |-> SubSeq(line, e2 + 2, Len(line))]
        ELSE [ok |-> FALSE, g1 |-> <<>>, g2 |-> <<>>, g3 |-> <<>>]

\* float() of a text of digits, a point and digits, in hundredths.
FloatOf(t) ==
    LET d == CHOOSE k \in 1..Len(t) : t[k] = "."
    IN  DigitsValue(SubSeq(t, 1, d - 1)) * 100 + DigitsValue(SubSeq(t, d + 1, Len(t)))

\* parse_dump.py:72-79: the entries of the lines the pattern matches.
RECURSIVE DumpEntries(_)
DumpEntries(lines) ==
    IF lines = <<>> THEN <<>>
    ELSE LET match == LineMatch(Head(lines))
         IN  IF match.ok
             THEN << [start |-> FloatOf(match.g1),
                      end   |-> FloatOf(match.g2),
                      word  |-> StripChars(match.g3, Whitespace)] >>
                  \o DumpEntries(Tail(lines))
             ELSE DumpEntries(Tail(lines))

InitDump ==
    /\ dpc = "transcribed"
    /\ dump_words \in DumpWordLists
    /\ dump_lines = <<>>
    /\ dump_parsed = <<>>
    \* the other processes are idle
    /\ fpc = "idle"
    /\ seconds = 0
    /\ formatted = <<>>
    /\ apc = "idle"
    /\ total_duration = 0
    /\ total_chunks = 0
    /\ chunk_index = 0
    /\ requests = <<>>
    /\ transcripts = <<>>
    /\ all_words = <<>>
    /\ banned_words = {}
    /\ found_words = <<>>
    /\ review_rows = <<>>
    /\ review_exists = FALSE
    /\ review_writes = 0
    /\ ppc = "idle"
    /\ tpc = "idle"
    /\ topic_results = <<>>
    /\ topics = <<>>
    /\ topic_words = <<>>
    /\ text_chunks = <<>>
    /\ found_topics = <<>>
    /\ upc = "idle"
    /\ existing = {}
    /\ counter = 0
    /\ unique_path = -1
    /\ vpc = "idle"
    /\ frame_interval = 0
    /\ threshold = 0
    /\ fps = 0
    /\ total_frames = 0
    /\ duration = 0
    /\ readable_frames = 0
    /\ frame_step = 0
    /\ current_frame = 0
    /\ visited = <<>>
    /\ found_nudity = <<>>
    /\ ranges = <<>>
    /\ csv_rows = <<>>
    /\ csv_exists = FALSE
    /\ cap_released = FALSE
    /\ epc = "idle"
    /\ tool = "none"
    /\ media = [ext |-> "", has_video |-> FALSE]
    /\ artifact = [exists |-> FALSE, columns |-> {}, rows |-> <<>>]
    /\ out_ext = ""
    /\ start_col = "none"
    /\ command = <<>>
    /\ filter = <<>>
    /\ invocations = 0
    /\ engine_result = "none"
    /\ output_exists = FALSE
    /\ outcome = "running"
    /\ printed = {}
    /\ results = <<>>
    /\ detected = <<>>

\* dump_transcription writes the file: lines 73-93.
DumpWrite ==
    /\ dpc = "transcribed"
    /\ dump_lines' = DumpFileOf(dump_words)
    /\ dpc' = "written"
    /\ UNCHANGED <<dump_words, dump_parsed>>
    /\ UNCHANGED exceptDump

\* parse_dump_file reads the file: parse_dump.py:70-79.
DumpRead ==
    /\ dpc = "written"
    /\ dump_parsed' = DumpEntries(dump_lines)
    /\ dpc' = "parsed"
    /\ UNCHANGED <<dump_words, dump_lines>>
    /\ UNCHANGED exceptDump

NextDump ==
    \/ DumpWrite
    \/ DumpRead

(***************************************************************************)
(* The specifications: one process runs, the others stay idle.             *)
(***************************************************************************)
SpecAnalyze == InitAnalyze /\ [][NextAnalyze]_vars

SpecParse == InitParse /\ [][NextParse]_vars

SpecTopics == InitTopics /\ [][NextTopics]_vars

SpecFormat == InitFormat /\ [][NextFormat]_vars

SpecDump == InitDump /\ [][NextDump]_vars

\* get_unique_filepath runs on: a sequential function whose next step is
\* always taken.
SpecUnique == InitUnique /\ [][NextUnique]_vars /\ WF_vars(NextUnique)

\* The four detectors: a run of analyze(), of parse_dump_file(), of
\* analyze_for_topics() or of analyze_video().
InitDetect ==
    \/ InitAnalyze
    \/ InitParse
    \/ InitTopics
    \/ InitVideo

NextDetect ==
    \/ NextAnalyze
    \/ NextParse
    \/ NextTopics
    \/ NextVideo

SpecDetect == InitDetect /\ [][NextDetect]_vars

SpecVideo == InitVideo /\ [][NextVideo]_vars

\* analyze_video() as a program that keeps running: a step that can be
\* taken is taken.  The control of the sampling loop does not read what the
\* detector returns (analyze_video.py:73-79, 104); here the detector returns
\* one detection or nothing for the first frame and nothing for the others.
LiveDetLists(n) ==
    IF n = 1 THEN {<<>>, << [class |-> "BUTTS", score |-> 80] >>} ELSE {<<>>}

SampleFrameLive ==
    SampleFrame /\ detected'[Len(detected')] \in LiveDetLists(Len(detected'))

NextVideoLive ==
    \/ OpenVideo
    \/ OpenVideoFail
    \/ SampleFrameLive
    \/ ReadFail
    \/ WriteReview

SpecVideoLive == InitVideo /\ [][NextVideoLive]_vars /\ WF_vars(NextVideoLive)

SpecEdit == InitEdit /\ [][NextEdit]_vars

(***************************************************************************)
(*                        Properties of analyze()                          *)
(***************************************************************************)
\* The chunk loop ran to its end.
ChunkLoopComplete ==
    apc \in {"matching", "returned", "saving", "done"}

\* The number of words the transcriptions of chunks 1..k-1 returned.
RECURSIVE WordsBefore(_)
WordsBefore(k) ==
    IF k <= 1 THEN 0 ELSE WordsBefore(k - 1) + Len(transcripts[k - 1])

\* C1: every word the transcriber returned for chunk i (the k-th, i = k-1)
\* with chunk-local times (s, e) stands in all_words, in order, with start
\* s + i*1800 and end e + i*1800, and all_words holds nothing else.
C1_Rebasing ==
    /\ Len(all_words) = WordsBefore(Len(transcripts) + 1)
    /\ \A k \in 1..Len(transcripts) :
         \A j \in 1..Len(transcripts[k]) :
            LET g == all_words[WordsBefore(k) + j]
                l == transcripts[k][j]
            IN  /\ g.word = l.word
                /\ g.start = l.start + (k - 1) * 1800
                /\ g.end = l.end + (k - 1) * 1800

\* A word of a later chunk, with a local start time above 0, was appended.
C1_Witness ==
    /\ Len(transcripts) >= 2
    /\ \E j \in 1..Len(transcripts[2]) : transcripts[2][j].start > 0
    /\ Len(all_words) > 0

\* The part of the media the k-th decode request delivers: the request's
\* window cut at the end of the media.
Window(k) ==
    [lo |-> requests[k].start_time,
     hi |-> Min(requests[k].start_time + requests[k].duration, total_duration)]

\* C2: the chunks are requested once each in ascending order, chunk i at
\* offset i*1800; a completed loop has processed floor(D/1800) + 1 chunks,
\* chunk i covering [i*1800, min((i+1)*1800, D)); the windows follow one
\* another from 0 to D without gap or overlap.
C2_ChunkPlan ==
    /\ \A k \in 1..Len(requests) : requests[k].start_time = (k - 1) * 1800
    /\ Len(transcripts) <= Len(requests)
    /\ ChunkLoopComplete =>
         LET N == (total_duration \div 1800) + 1
         IN  /\ Len(requests) = N
             /\ Len(transcripts) = N
             /\ \A k \in 1..N :
                  /\ Window(k).lo = (k - 1) * 1800
                  /\ Window(k).hi = Min(k * 1800, total_duration)
                  /\ Window(k).lo <= Window(k).hi
             /\ Window(1).lo = 0
             /\ \A k \in 1..(N - 1) : Window(k).hi = Window(k + 1).lo
             /\ Window(N).hi = total_duration

\* A completed loop over a duration that is a whole number of chunks: the
\* last chunk is empty.
C2_Witness ==
    /\ ChunkLoopComplete
    /\ total_duration = 3600
    /\ Len(requests) = 3

(***************************************************************************)
(*                      Properties of analyze_video()                      *)
(***************************************************************************)
\* C3: the ranges written to the CSV are sorted ascending and strictly
\* disjoint: each written range ends before the next one starts.
C3_RangesDisjoint ==
    vpc = "done" =>
        \A k \in 1..(Len(csv_rows) - 1) :
            csv_rows[k].end_seconds < csv_rows[k + 1].start_seconds

\* Two detection times lie in the same unbuffered range.
SameRange(t1, t2) ==
    \E r \in 1..Len(ranges) :
        /\ ranges[r].start <= t1 /\ t1 <= ranges[r].end
        /\ ranges[r].start <= t2 /\ t2 <= ranges[r].end

\* C4 as claimed: ANY two accepted detections at t1 <= t2 are in the same
\* range if t2 - t1 <= 1.5 * frame_interval and in different ranges
\* otherwise.
C4_AnyPairByDistance ==
    vpc = "done" =>
        \A a, b \in 1..Len(found_nudity) :
            LET t1 == found_nudity[a].timestamp
                t2 == found_nudity[b].timestamp
            IN  t1 <= t2 =>
                    (SameRange(t1, t2) <=> 2 * (t2 - t1) <= 3 * frame_interval)

\* C4 as amended: two accepted detections are in the same range exactly
\* when every two consecutive accepted detections from the first to the
\* second (in timestamp order) are at most 1.5 * frame_interval apart; so
\* two detections at most the gap apart share a range, and two consecutive
\* detections more than the gap apart do not.
C4_MergeByChain ==
    vpc = "done" =>
        \A a, b \in 1..Len(found_nudity) :
            a <= b =>
                LET t1 == found_nudity[a].timestamp
                    t2 == found_nudity[b].timestamp
                IN  /\ t1 <= t2
                    /\ SameRange(t1, t2) <=>
                          \A k \in a..(b - 1) :
                              2 * (found_nudity[k + 1].timestamp
                                   - found_nudity[k].timestamp)
                                 <= 3 * frame_interval
                    /\ 2 * (t2 - t1) <= 3 * frame_interval => SameRange(t1, t2)

\* Two detections farther apart than the gap share a range.
C4_Witness ==
    /\ vpc = "done"
    /\ \E a, b \in 1..Len(found_nudity) :
         /\ 2 * (found_nudity[b].timestamp - found_nudity[a].timestamp)
               > 3 * frame_interval
         /\ SameRange(found_nudity[a].timestamp, found_nudity[b].timestamp)

\* A written value (hundredths of a second) is the two-decimal rendering
\* of a time (milliseconds): it differs from it by at most half a hundredth.
Renders(written, ms) == written * 10 - ms <= 5 /\ ms - written * 10 <= 5

\* C5: every written range is [max(0, start - 0.5), min(duration, end + 0.5)]
\* of its cluster, to the two decimals written, and satisfies
\* 0 <= start_seconds <= end_seconds <= duration (the duration to the same
\* two decimals).
C5_BufferedBounds ==
    vpc = "done" =>
        /\ Len(csv_rows) = Len(ranges)
        /\ \A k \in 1..Len(csv_rows) :
             /\ Renders(csv_rows[k].start_seconds, Max(0, ranges[k].start - 500))
             /\ Renders(csv_rows[k].end_seconds,
                        Min(duration, ranges[k].end + 500))
             /\ 0 <= csv_rows[k].start_seconds
             /\ csv_rows[k].start_seconds <= csv_rows[k].end_seconds
             /\ csv_rows[k].end_seconds * 10 <= duration + 5

(***************************************************************************)
(*        Properties of edit_media_with_ffmpeg() and edit_video()          *)
(***************************************************************************)
HasPair(cmd, flag, value) ==
    \E n \in 1..(Len(cmd) - 1) : cmd[n] = flag /\ cmd[n + 1] = value

\* C6: whenever the engine is invoked by edit_media_with_ffmpeg on a media
\* that holds a video stream, the command maps the video stream and copies
\* it (-c:v copy).
C6_VideoStreamKept ==
    (tool = "edit_audio" /\ invocations > 0 /\ media.has_video) =>
        /\ HasPair(command, "-map", "0:v:0?")
        /\ HasPair(command, "-c:v", "copy")

ProbeTimes == 0..MaxProbe

\* Row k of the artifact is a numeric pair (s, e) in columns sc, ec with
\* s <= t <= e.
RowCovers(row, sc, ec, t) ==
    /\ row[sc].ok /\ row[ec].ok
    /\ row[sc].v <= t /\ t <= row[ec].v

IsNumericRange(row) == row["start_seconds"].ok /\ row["end_seconds"].ok

\* C7: the filter of an invoked engine holds one between-window per row
\* (s_k, e_k), with the row's own start and end, in row order, and it is
\* active at time t exactly when s_k <= t <= e_k for some row k.
C7_TimeWindows ==
    invocations > 0 =>
        IF tool = "edit_audio"
        THEN LET ec == IF start_col = "start" THEN "end" ELSE "end_seconds"
             IN  /\ Len(filter) = Len(artifact.rows)
                 /\ \A k \in 1..Len(filter) :
                      /\ filter[k].lo = artifact.rows[k][start_col]
                      /\ filter[k].hi = artifact.rows[k][ec]
                 /\ \A t \in ProbeTimes :
                      MutedAt(t, filter) <=>
                         \E k \in 1..Len(artifact.rows) :
                            RowCovers(artifact.rows[k], start_col, ec, t)
        ELSE LET numeric == SelectSeq(artifact.rows, IsNumericRange)
             IN  /\ Len(filter) = Len(numeric)
                 /\ \A k \in 1..Len(filter) :
                      /\ filter[k].lo = numeric[k]["start_seconds"]
                      /\ filter[k].hi = numeric[k]["end_seconds"]
                 /\ \A t \in ProbeTimes :
                      BlurredAt(t, filter) <=>
                         \E k \in 1..Len(artifact.rows) :
                            RowCovers(artifact.rows[k], "start_seconds",
                                      "end_seconds", t)

\* The mute filter of two rows was handed to the engine: it is on inside a
\* window and off outside both.
C7_Witness ==
    /\ tool = "edit_audio"
    /\ invocations > 0
    /\ Len(filter) = 2
    /\ \E t \in ProbeTimes : MutedAt(t, filter)
    /\ \E t \in ProbeTimes : ~MutedAt(t, filter)

WindowsFrom(sc, ec) ==
    /\ start_col = sc
    /\ artifact.rows # <<>> =>
         /\ invocations = 1
         /\ Len(filter) = Len(artifact.rows)
         /\ \A k \in 1..Len(filter) :
              /\ filter[k].lo = artifact.rows[k][sc]
              /\ filter[k].hi = artifact.rows[k][ec]

EmptyArtifact ==
    /\ artifact.exists
    /\ IF tool = "edit_audio"
       THEN /\ artifact.rows = <<>>
            /\ \/ {"start", "end"} \subseteq artifact.columns
               \/ {"start_seconds", "end_seconds"} \subseteq artifact.columns
       ELSE \/ artifact.rows = <<>>
            \/ /\ {"start_seconds", "end_seconds"} \subseteq artifact.columns
               /\ \A k \in 1..Len(artifact.rows) :
                    ~IsNumericRange(artifact.rows[k])

\* C9: on an empty artifact the engine is never invoked, the function
\* returns normally and no output file exists afterward.
C9_EmptyIsNoOp ==
    (epc = "done" /\ EmptyArtifact) =>
        /\ invocations = 0
        /\ outcome = "returned"
        /\ ~output_exists
        /\ engine_result = "none"

\* edit_media_with_ffmpeg returned on an artifact of a header and no rows.
C9_Witness ==
    /\ epc = "done"
    /\ tool = "edit_audio"
    /\ artifact.exists
    /\ artifact.rows = <<>>
    /\ "review_empty" \in printed
    /\ invocations = 0

\* C10: when the engine exits non-zero the failure is surfaced to the
\* caller and no file, not even a partial one, is left at the output path.
C10_EngineFailureFatal ==
    (epc = "done" /\ engine_result \in {"failed", "failed_partial"}) =>
        /\ outcome = "raised"
        /\ ~output_exists

(***************************************************************************)
(*                 Properties of analyze(): matching and writing           *)
(***************************************************************************)
Aborted == apc \in {"aborted", "aborted_transcribe"}

\* The matching loop of analyze() has started.
MatchingStarted == apc \in {"matching", "returned", "saving", "done"}

\* C11: the matching and the write of the review file happen at most once
\* and only after every one of the N chunks was decoded, transcribed and
\* rebased; a run that a failed decode or transcription aborted has written
\* no review file, whatever the earlier chunks held.
C11_WriteAfterAllChunks ==
    /\ review_writes <= 1
    /\ review_exists => review_writes = 1 /\ apc = "done"
    /\ (MatchingStarted \/ found_words # <<>> \/ review_writes > 0) =>
          /\ total_chunks = (total_duration \div 1800) + 1
          /\ chunk_index = total_chunks
          /\ Len(requests) = total_chunks
          /\ Len(transcripts) = total_chunks
          /\ Len(all_words) = WordsBefore(total_chunks + 1)
    /\ Aborted =>
          /\ ~review_exists
          /\ review_writes = 0
          /\ review_rows = <<>>
          /\ found_words = <<>>

\* A review file was written by a run of three chunks, with a detection of
\* the last chunk in it.
C11_Witness ==
    /\ apc = "done"
    /\ review_exists
    /\ total_chunks = 3
    /\ \E k \in 1..Len(review_rows) : review_rows[k].start >= 3600

\* C17: the decode request of chunk i starts at i*1800 and asks for
\* min(1800, D - i*1800) seconds, so that no request reaches beyond the
\* duration D of the media.
C17_FinalChunkClamp ==
    \A k \in 1..Len(requests) :
        /\ requests[k].start_time = (k - 1) * 1800
        /\ requests[k].duration = Min(1800, total_duration - (k - 1) * 1800)
        /\ requests[k].start_time + requests[k].duration <= total_duration

(***************************************************************************)
(*          Properties of the word detectors: analyze(), parse_dump_file() *)
(***************************************************************************)
\* The matching loop of the running word detector has ended.
MatchDone ==
    \/ apc \in {"returned", "saving", "done"}
    \/ ppc \in {"returned", "saving", "done"}

\* The k-th smallest element of a set of positions.
NthOf(S, k) == CHOOSE i \in S : Cardinality({j \in S : j < i}) = k - 1

\* The reported rows are the tokens at the positions hits, in order, each
\* with its own start, end and original text.
ReportsExactly(hits) ==
    /\ Len(found_words) = Cardinality(hits)
    /\ \A k \in 1..Len(found_words) :
          /\ found_words[k].word = all_words[NthOf(hits, k)].word
          /\ found_words[k].start = all_words[NthOf(hits, k)].start
          /\ found_words[k].end = all_words[NthOf(hits, k)].end

\* C12 as stated: a token is reported if and only if its text, lower-cased
\* and with leading and trailing punctuation stripped, is a member of the
\* banned-word set; the reported word is the original token text.
C12_LowerAndPunctuation ==
    MatchDone =>
        ReportsExactly({i \in 1..Len(all_words) :
            StripChars(LowerText(all_words[i].word), Punctuation) \in banned_words})

\* C12, amended: a token is reported if and only if its text, with the
\* surrounding whitespace removed, then lower-cased, then with leading and
\* trailing punctuation stripped, is a member of the banned-word set (a
\* token that only contains a banned word is not reported); the reported
\* word is the original token text.
C12_TrimLowerAndPunctuation ==
    MatchDone =>
        ReportsExactly({i \in 1..Len(all_words) :
            StripChars(LowerText(StripChars(all_words[i].word, Whitespace)),
                       Punctuation) \in banned_words})

\* analyze() reported a token by its original text, with the space in
\* front, the upper-case letter and the punctuation, and passed over another
\* token.
C12_Witness ==
    /\ apc \in {"saving", "done"}
    /\ \E k \in 1..Len(found_words) :
          found_words[k].word = <<" ", "Bad", "word", "!">>
    /\ Len(found_words) < Len(all_words)

\* The positions of the tokens the running word detector reports.
Hits ==
    {i \in 1..Len(all_words) :
        StripChars(LowerText(StripChars(all_words[i].word, Whitespace)),
                   Punctuation) \in banned_words}

\* The texts of the tokens lo..hi, with one space between neighbours.
RECURSIVE SpaceJoined(_, _)
SpaceJoined(lo, hi) ==
    IF hi < lo THEN <<>>
    ELSE IF hi = lo THEN all_words[lo].word
    ELSE SpaceJoined(lo, hi - 1) \o <<" ">> \o all_words[hi].word

\* C13: the context of a match at index i (from 0) of N tokens is the
\* space-joined text of the tokens at the indices max(0, i-5) up to, not
\* including, min(N, i+6), in order: at most 11 tokens, the matched token
\* among them.  Position p = i + 1 here.
C13_ContextWindow ==
    MatchDone =>
        \A k \in 1..Len(found_words) :
            LET p  == NthOf(Hits, k)
                lo == Max(0, (p - 1) - 5) + 1
                hi == Min(Len(all_words), (p - 1) + 6)
            IN  /\ found_words[k].context = SpaceJoined(lo, hi)
                /\ lo <= p /\ p <= hi
                /\ hi - lo + 1 <= 11

\* parse_dump_file() reported the 7th of 13 tokens: the window holds the
\* tokens 2..12 and leaves out one token on either side.
C13_Witness ==
    /\ ppc = "done"
    /\ Len(all_words) = 13
    /\ Hits = {7}
    /\ found_words[1].context = SpaceJoined(2, 12)
    /\ found_words[1].context # SpaceJoined(1, 13)

\* C15: the rows a word detector wrote to the word-schema file, read back
\* as edit_media_with_ffmpeg reads them, give the (start, end, word)
\* triples of the matched intervals: as many rows, in the same order.
C15_WordSchemaRoundTrip ==
    review_exists =>
        LET back == ReadCsv(ToCsv(review_rows))
        IN  /\ Len(back) = Len(found_words)
            /\ \A k \in 1..Len(back) :
                  /\ back[k]["start"].kind = "float"
                  /\ back[k]["start"].num = found_words[k].start
                  /\ back[k]["end"].kind = "float"
                  /\ back[k]["end"].num = found_words[k].end
                  /\ back[k]["word"].kind = "str"
                  /\ back[k]["word"].text = found_words[k].word

(***************************************************************************)
(*                      Properties of the four detectors                   *)
(***************************************************************************)
\* The classification loop of analyze_for_topics() has ended.
ClassifyDone == tpc \in {"classified", "returned", "done"}

RecognizedOutExts == {".mp3", ".mp4", ".m4b", ".m4a"} \cup VideoFormats

\* edit_media_with_ffmpeg was given a review file it accepts, with rows.
UsableArtifact ==
    /\ artifact.exists
    /\ {"start", "end"} \subseteq artifact.columns
          \/ {"start_seconds", "end_seconds"} \subseteq artifact.columns
    /\ Len(artifact.rows) > 0

\* C16: the audio codec of edit_media_with_ffmpeg depends on the output
\* extension alone, whatever its case: libmp3lame for .mp3, aac for every
\* other; an output extension that is not recognized produces a warning,
\* does not end the run, and the engine is invoked all the same.
C16_CodecByOutputExtension ==
    (tool = "edit_audio" /\ epc # "start" /\ UsableArtifact) =>
        /\ invocations = 1
        /\ HasPair(command, "-c:a",
                   IF out_ext \in {".mp3", ".MP3"} THEN "libmp3lame" ELSE "aac")
        /\ Lower(out_ext) \notin RecognizedOutExts =>
              "unrecognized_extension" \in printed

\* The segments analyze_for_topics() accepted, by position.
AcceptedSegments ==
    {k \in 1..Len(topic_results) : topic_results[k].top_score >= 7000}

\* C18: the review file of analyze(), parse_dump_file() and
\* analyze_for_topics() holds one row per accepted detection, in the order
\* of the detections, each row with the start and the end of its own
\* detection: rows that overlap or touch in time are not combined.
C18_StreamsNotMerged ==
    /\ (review_exists /\ (apc = "done" \/ ppc = "done")) =>
          /\ Len(review_rows) = Cardinality(Hits)
          /\ \A k \in 1..Len(review_rows) :
                /\ review_rows[k].start = all_words[NthOf(Hits, k)].start
                /\ review_rows[k].end = all_words[NthOf(Hits, k)].end
                /\ review_rows[k].word = all_words[NthOf(Hits, k)].word
    /\ (review_exists /\ tpc = "done") =>
          /\ Len(review_rows) = Cardinality(AcceptedSegments)
          /\ \A k \in 1..Len(review_rows) :
                LET c == NthOf(AcceptedSegments, k)
                IN  /\ review_rows[k].start_seconds = text_chunks[c].start
                    /\ review_rows[k].end_seconds = text_chunks[c].end
                    /\ review_rows[k].topic = topic_results[c].top_label
    /\ (apc = "done" \/ ppc = "done" \/ tpc = "done") => review_exists

\* parse_dump_file() wrote two rows that overlap in time.
C18_Witness ==
    /\ ppc = "done"
    /\ Len(review_rows) = 2
    /\ review_rows[1].end > review_rows[2].start

(***************************************************************************)
(*            Properties of format_time() and get_unique_filepath()        *)
(***************************************************************************)
\* The positions of the colons of the returned string.
Colons == {k \in 1..Len(formatted) : formatted[k] = ":"}

FirstColon == CHOOSE k \in Colons : \A j \in Colons : k <= j
LastColon == CHOOSE k \in Colons : \A j \in Colons : k >= j

HoursField == SubSeq(formatted, 1, FirstColon - 1)
MinutesField == SubSeq(formatted, FirstColon + 1, LastColon - 1)
SecondsField == SubSeq(formatted, LastColon + 1, Len(formatted))

AllDigits(t) == t # <<>> /\ \A k \in 1..Len(t) : IsDigit(t[k])

\* C19: for s >= 0 seconds every format_time returns H:M:S with
\* H = floor(s) div 3600, not wrapped at 24, M and S in 0..59, each field
\* padded with zeros to two digits at least, and H*3600 + M*60 + S =
\* floor(s).
C19_FormatTime ==
    fpc \in {"returned", "returned_divmod"} =>
        /\ Cardinality(Colons) = 2
        /\ AllDigits(HoursField)
        /\ AllDigits(MinutesField)
        /\ AllDigits(SecondsField)
        /\ Len(HoursField) >= 2
        /\ Len(HoursField) > 2 => HoursField[1] # "0"
        /\ Len(MinutesField) = 2
        /\ Len(SecondsField) = 2
        /\ DigitsValue(HoursField) = (seconds \div 1000) \div 3600
        /\ DigitsValue(MinutesField) \in 0..59
        /\ DigitsValue(SecondsField) \in 0..59
        /\ DigitsValue(HoursField) * 3600 + DigitsValue(MinutesField) * 60
              + DigitsValue(SecondsField) = seconds \div 1000

\* The divmod variant returned 25:01:05 for 90065.5 seconds.
C19_Witness ==
    /\ fpc = "returned_divmod"
    /\ seconds = 90065500
    /\ formatted = <<"2", "5", ":", "0", "1", ":", "0", "5">>

\* C20, the state part: get_unique_filepath returns filepath itself when
\* it does not exist, and otherwise the candidate of the smallest k >= 1
\* that does not exist; the path returned does not exist.
UniqueResult ==
    upc = "returned" =>
        /\ unique_path \notin existing
        /\ 0 \notin existing => unique_path = 0
        /\ 0 \in existing =>
              /\ unique_path >= 1
              /\ \A k \in 1..(unique_path - 1) : k \in existing

\* C20: the result of get_unique_filepath is as UniqueResult says, the call
\* creates, removes or changes no file, and the search ends.
C20_UniquePath ==
    /\ []UniqueResult
    /\ [][existing' = existing]_vars
    /\ <>(upc = "returned")

\* filepath and its first two candidates exist, the fourth too: the third
\* candidate was returned.
C20_Witness ==
    /\ upc = "returned"
    /\ existing = {0, 1, 2, 4}
    /\ unique_path = 3

(***************************************************************************)
(*                     C21: the normalization is stateless                 *)
(***************************************************************************)
\* The words of all_words that the k-th chunk contributed.
ChunkWords(k) == SubSeq(all_words, WordsBefore(k) + 1, WordsBefore(k + 1))

\* C21: the normalization of analyze() is stateless: the word records the
\* transcriber returned for a chunk are after the run what they were before
\* it, and rebasing the records as the run left them gives the words the
\* run gave.
C21_NormalizationStateless ==
    \A k \in 1..Len(results) :
        /\ results[k] = transcripts[k]
        /\ Rebase(results[k], ChunkOffset(k - 1)) = ChunkWords(k)

(***************************************************************************)
(*                 C22: the labels of a written range                      *)
(***************************************************************************)
\* The accepted detections whose timestamps lie in [lo, hi].
DetectionsIn(lo, hi) ==
    {i \in 1..Len(found_nudity) :
        lo <= found_nudity[i].timestamp /\ found_nudity[i].timestamp <= hi}

\* C22: the labels field of each written range holds exactly the class
\* labels of the accepted detections clustered into that range, each once,
\* in ascending order of the names.
C22_LabelUnion ==
    (vpc = "done" /\ csv_exists) =>
        /\ Len(csv_rows) = Len(ranges)
        /\ \A k \in 1..Len(csv_rows) :
             LET names == csv_rows[k].labels
             IN  /\ {names[i] : i \in 1..Len(names)} =
                      {found_nudity[i].label :
                          i \in DetectionsIn(ranges[k].start, ranges[k].end)}
                 /\ \A i \in 1..(Len(names) - 1) :
                       ClassRank(names[i]) < ClassRank(names[i + 1])

\* A range of three detections on two frames was written: the first frame
\* gave FEMALE_BREAST before BUTTS, the second BUTTS again.
C22_Witness ==
    /\ vpc = "done"
    /\ csv_exists
    /\ Len(found_nudity) = 3
    /\ found_nudity[1].label = "FEMALE_BREAST"
    /\ found_nudity[2].label = "BUTTS"
    /\ found_nudity[3].label = "BUTTS"
    /\ found_nudity[1].timestamp = found_nudity[2].timestamp
    /\ found_nudity[2].timestamp < found_nudity[3].timestamp
    /\ Len(csv_rows) = 1
    /\ csv_rows[1].labels = <<"BUTTS", "FEMALE_BREAST">>

(***************************************************************************)
(*                     C23: which detections are kept                      *)
(***************************************************************************)
\* A raw detection that the claim says contributes to the output.
Contributes(d) ==
    /\ d.score >= threshold
    /\ d.class \in {"BUTTS", "FEMALE_BREAST", "FEMALE_GENITALIA",
                    "MALE_GENITALIA", "ANUS"}

\* The contributing detections of the first n frames read, in order, each
\* with the index of its frame.
RECURSIVE Contributing(_)
Contributing(n) ==
    IF n = 0 THEN <<>>
    ELSE LET kept == SelectSeq(detected[n], Contributes)
         IN  Contributing(n - 1) \o
             [k \in 1..Len(kept) |-> [frame |-> visited[n], det |-> kept[k]]]

\* C23: found_nudity holds one record for every raw detection of a sampled
\* frame whose score reaches the threshold and whose class is one of the
\* five, and no other record; the record of a detection on frame f carries
\* its class and score and the timestamp f / fps.
C23_VisualAcceptance ==
    (vpc \in {"sampling", "aggregate", "done"}) =>
        /\ Len(detected) = Len(visited)
        /\ LET kept == Contributing(Len(visited))
           IN  /\ Len(found_nudity) = Len(kept)
               /\ \A i \in 1..Len(kept) :
                    /\ found_nudity[i].label = kept[i].det.class
                    /\ found_nudity[i].score = kept[i].det.score
                    /\ found_nudity[i].timestamp * fps = kept[i].frame * 1000

\* The first frame gave a detection of a class that is not accepted, a later
\* frame two detections that are accepted, one of them at the threshold.
C23_Witness ==
    /\ vpc = "aggregate"
    /\ threshold = 50
    /\ Len(detected) = 2
    /\ detected[1] = << [class |-> "FACE_FEMALE", score |-> 90] >>
    /\ detected[2] = << [class |-> "FEMALE_BREAST", score |-> 50],
                        [class |-> "BUTTS", score |-> 80] >>
    /\ Len(found_nudity) = 2
    /\ found_nudity[1].timestamp = found_nudity[2].timestamp
    /\ found_nudity[1].timestamp > 0

(***************************************************************************)
(*                     C24: the segments of the topics run                 *)
(***************************************************************************)
Segmented == tpc \in {"classify", "classified", "returned", "done"}

\* The words of a text: its pieces that are not whitespace.
NotWhitespace(c) == c \notin Whitespace
NamesOf(t) == SelectSeq(t, NotWhitespace)

\* The number of words in the k-th segment, and the position of its first
\* word in topic_words.
SegCount(k) == Len(NamesOf(text_chunks[k].text))

RECURSIVE SegFirst(_)
SegFirst(k) == IF k = 1 THEN 1 ELSE SegFirst(k - 1) + SegCount(k - 1)

\* The words of the first k segments, in order.
RECURSIVE SegNames(_)
SegNames(k) ==
    IF k = 0 THEN <<>> ELSE SegNames(k - 1) \o NamesOf(text_chunks[k].text)

RECURSIVE WordNames(_)
WordNames(i) ==
    IF i = 0 THEN <<>> ELSE WordNames(i - 1) \o NamesOf(topic_words[i].word)

\* C24: the segments hold the words of the transcription, each once and in
\* order; the first segment starts where the first word starts; a segment
\* ends at the end of its last word, which is the first word to end more
\* than 90 s after the segment's start, except that the last segment may
\* end with the last word without reaching that; a segment starts where
\* the one before it ends, and every segment but the last spans more than
\* 90 s.
C24_Segmentation ==
    Segmented =>
        LET n == Len(text_chunks)
        IN  /\ n >= 1
            /\ SegNames(n) = WordNames(Len(topic_words))
            /\ text_chunks[1].start = topic_words[1].start
            /\ \A k \in 1..n :
                 LET lo == SegFirst(k)
                     hi == SegFirst(k) + SegCount(k) - 1
                 IN  /\ SegCount(k) >= 1
                     /\ text_chunks[k].end = topic_words[hi].end
                     /\ \A i \in lo..(hi - 1) :
                          topic_words[i].end - text_chunks[k].start <= 90
                     /\ (k < n) =>
                          /\ topic_words[hi].end - text_chunks[k].start > 90
                          /\ text_chunks[k].end - text_chunks[k].start > 90
                          /\ text_chunks[k + 1].start = text_chunks[k].end

\* Four words of 91, 30, 30 and 30 seconds: the first word closes the first
\* segment, the other three make a last segment of exactly 90 seconds.
C24_Witness ==
    /\ tpc = "classify"
    /\ Len(topic_words) = 4
    /\ Len(text_chunks) = 2
    /\ text_chunks[1].start = 0
    /\ text_chunks[1].end = 91
    /\ text_chunks[2].start = 91
    /\ text_chunks[2].end = 181

(***************************************************************************)
(*                     C25: which segments give a row                      *)
(***************************************************************************)
\* The segments classified so far whose first-ranked score is 0.70 or more.
TopRanked == {k \in 1..Len(topic_results) : topic_results[k].scores[1] >= 7000}

\* C25: found_topics holds one row for every classified segment whose
\* first-ranked score is at least 0.70, in the order of the segments, and
\* no other row; the row carries the first-ranked label and the start and
\* end of its segment.
C25_TopicAcceptance ==
    Segmented =>
        /\ Len(found_topics) = Cardinality(TopRanked)
        /\ \A j \in 1..Len(found_topics) :
             LET k == NthOf(TopRanked, j)
             IN  /\ found_topics[j].topic = topic_results[k].labels[1]
                 /\ found_topics[j].start_seconds = text_chunks[k].start
                 /\ found_topics[j].end_seconds = text_chunks[k].end

\* Two segments were classified: the first scored 0.6999 and gave no row,
\* the second scored exactly 0.70 for the second topic of the file and gave
\* the only row; the topic ranked below it gave none.
C25_Witness ==
    /\ tpc = "classified"
    /\ Len(topic_results) = 2
    /\ topic_results[1].scores[1] = 6999
    /\ topic_results[2].scores[1] = 7000
    /\ topic_results[2].labels = <<topics[2], topics[1]>>
    /\ Len(found_topics) = 1
    /\ found_topics[1].topic = topics[2]
    /\ found_topics[1].start_seconds = text_chunks[2].start
    /\ text_chunks[2].start > 0

(***************************************************************************)
(*                  C26: a list without entries ends the run               *)
(***************************************************************************)
\* C26: once the banned-word file of analyze() or parse_dump_file(), or
\* the topics file of analyze_for_topics(), has been read and has given no
\* entry, the run has ended: nothing was decoded, transcribed, parsed or
\* classified, and no file was written.
C26_EmptyListAborts ==
    /\ (apc \notin {"idle", "load_words"} /\ banned_words = {}) =>
          /\ apc = "no_words"
          /\ requests = <<>>
          /\ transcripts = <<>>
          /\ all_words = <<>>
          /\ ~review_exists /\ review_writes = 0
    /\ (ppc \notin {"idle", "load_words", "words_missing"} /\ banned_words = {}) =>
          /\ ppc = "no_words"
          /\ all_words = <<>>
          /\ ~review_exists /\ review_writes = 0
    /\ (tpc \notin {"idle", "load_topics", "topics_missing"} /\ topics = <<>>) =>
          /\ tpc = "no_topics"
          /\ topic_words = <<>>
          /\ text_chunks = <<>>
          /\ topic_results = <<>>
          /\ ~review_exists /\ review_writes = 0

\* analyze_for_topics() has read a topics file without an entry.
C26_Witness ==
    /\ tpc = "no_topics"
    /\ topics = <<>>
    /\ topic_words = <<>>
    /\ ~review_exists

(***************************************************************************)
(*                 C27: every detection lies in a written range            *)
(***************************************************************************)
\* The clusters whose unbuffered span holds the time t.
ClustersAt(t) == {k \in 1..Len(ranges) : ranges[k].start <= t /\ t <= ranges[k].end}

\* C27 as stated: every accepted detection lies in exactly one unbuffered
\* cluster; if its timestamp t is at most the duration, t lies between the
\* start_seconds and the end_seconds written for that cluster; a written
\* file holds at least one range and at most as many as there are accepted
\* detections.
C27_DetectionCoverage ==
    (vpc = "done" /\ csv_exists) =>
        /\ 1 <= Len(csv_rows)
        /\ Len(csv_rows) <= Len(found_nudity)
        /\ \A i \in 1..Len(found_nudity) :
             LET t == found_nudity[i].timestamp
             IN  /\ Cardinality(ClustersAt(t)) = 1
                 /\ (t <= duration) =>
                      \A k \in ClustersAt(t) :
                         /\ csv_rows[k].start_seconds * 10 <= t
                         /\ t <= csv_rows[k].end_seconds * 10

\* C27, amended: as above, with t between the buffered bounds
\* max(0, start - 0.5) and min(duration, end + 0.5) of its cluster, of
\* which start_seconds and end_seconds are the renderings to two decimals.
C27_CoverageOfBufferedRange ==
    (vpc = "done" /\ csv_exists) =>
        /\ 1 <= Len(csv_rows)
        /\ Len(csv_rows) <= Len(found_nudity)
        /\ \A i \in 1..Len(found_nudity) :
             LET t == found_nudity[i].timestamp
             IN  /\ Cardinality(ClustersAt(t)) = 1
                 /\ (t <= duration) =>
                      \A k \in ClustersAt(t) :
                         LET lo == Max(0, ranges[k].start - 500)
                             hi == Min(duration, ranges[k].end + 500)
                         IN  /\ lo <= t
                             /\ t <= hi
                             /\ Renders(csv_rows[k].start_seconds, lo)
                             /\ Renders(csv_rows[k].end_seconds, hi)

\* A file of 8 frames per second that reports one frame and delivers more:
\* a detection on frame 1 lies at t = 0.125 = duration, and the end of its
\* range is written as 0.12.
C27_Witness ==
    /\ vpc = "done"
    /\ csv_exists
    /\ fps = 8
    /\ duration = 125
    /\ \E i \in 1..Len(found_nudity) :
          /\ found_nudity[i].timestamp = 125
          /\ \E k \in ClustersAt(125) : csv_rows[k].end_seconds = 12

(***************************************************************************)
(*            C28: detections on consecutive samples share a range         *)
(***************************************************************************)
\* The positions in visited of the frames that gave an accepted detection.
HitFrames ==
    {n \in 1..Len(visited) :
        \E i \in 1..Len(found_nudity) :
            found_nudity[i].timestamp * fps = visited[n] * 1000}

\* C28: the sampling period frame_step / fps is at most the adjacency gap
\* 1.5 * frame_interval, and accepted detections on two frames sampled one
\* after the other lie in the same range.
C28_ConsecutiveSamplesMerge ==
    (vpc = "done" /\ csv_exists) =>
        /\ 2 * frame_step * 1000 <= 3 * frame_interval * fps
        /\ \A n \in 1..(Len(visited) - 1) :
             (n \in HitFrames /\ (n + 1) \in HitFrames) =>
                ClustersAt((visited[n] * 1000) \div fps) =
                ClustersAt((visited[n + 1] * 1000) \div fps)

(***************************************************************************)
(*                     C29: the sampling loop ends                         *)
(***************************************************************************)
\* The sampling loop is running or has run.
Sampling == vpc \in {"sampling", "aggregate", "done"}

\* What holds of the loop at every point: the step is at least 1, the
\* frames read are 0, frame_step, 2 * frame_step, ... and were readable,
\* and current_frame is the next of them.
LoopShape ==
    Sampling =>
        /\ frame_step >= 1
        /\ Len(visited) <= readable_frames
        /\ \A n \in 1..Len(visited) :
              /\ visited[n] = (n - 1) * frame_step
              /\ visited[n] < readable_frames
        /\ current_frame = Len(visited) * frame_step

\* After the loop: it ended at the first frame that could not be read, and
\* the capture is released.
LoopExit ==
    (vpc \in {"aggregate", "done"}) =>
        /\ current_frame >= readable_frames
        /\ cap_released

\* C29: the sampling loop of analyze_video() visits the frames 0,
\* frame_step, 2 * frame_step, ... with frame_step >= 1, each once,
\* current_frame growing by frame_step with every frame read; it ends at
\* the first failed read, the capture is then released, and every run that
\* enters the loop leaves it.
C29_SamplingTerminates ==
    /\ []LoopShape
    /\ []LoopExit
    /\ [][(vpc = "sampling" /\ vpc' = "sampling") =>
            /\ current_frame' = current_frame + frame_step
            /\ current_frame' > current_frame
            /\ visited' = Append(visited, current_frame)]_vars
    /\ [](~cap_released => vpc \in {"idle", "open", "exited", "sampling"})
    /\ ((vpc = "sampling") ~> (vpc = "aggregate" /\ cap_released))

\* The loop has read the frames 0 and 2 of a file of three frames and has
\* ended on the failed read of frame 4.
C29_Witness ==
    /\ vpc = "aggregate"
    /\ cap_released
    /\ frame_step = 2
    /\ readable_frames = 3
    /\ visited = <<0, 2>>
    /\ current_frame = 4

\* The first token line of the dump file comes after the three header lines.
DumpTokenLine(k) == dump_lines[Len(DumpHeader) + k]

\* C30: after dump_transcription wrote the file and the line pattern read it,
\* there is one parsed entry per transcribed token, in the order of the
\* tokens, with the token's word text and the start and end values the line
\* prints (the times to two decimals); this includes tokens at 100 hours or
\* later.  Every token line is matched by the pattern and no header line is.
C30_DumpRoundTrip ==
    (dpc = "parsed") =>
        /\ \A k \in 1..Len(DumpHeader) : ~LineMatch(dump_lines[k]).ok
        /\ \A k \in 1..Len(dump_words) : LineMatch(DumpTokenLine(k)).ok
        /\ Len(dump_parsed) = Len(dump_words)
        /\ \A k \in 1..Len(dump_words) :
            /\ dump_parsed[k].word = dump_words[k].word
            /\ 10 * dump_parsed[k].start - dump_words[k].start \in -5..5
            /\ 10 * dump_parsed[k].end - dump_words[k].end \in -5..5

\* The parts of C30 that hold for tokens below 100 hours whose word has no
\* white space around it.
C30_RoundTripBelow100Hours ==
    (dpc = "parsed"
        /\ \A k \in 1..Len(dump_words) :
            /\ dump_words[k].start < 360000000
            /\ dump_words[k].word = StripChars(dump_words[k].word, Whitespace))
    => /\ Len(dump_parsed) = Len(dump_words)
       /\ \A k \in 1..Len(dump_words) :
            /\ dump_parsed[k].word = dump_words[k].word
            /\ 10 * dump_parsed[k].start - dump_words[k].start \in -5..5
            /\ 10 * dump_parsed[k].end - dump_words[k].end \in -5..5

\* A token at 100 hours was written and its line was not parsed.
C30_LineDropped ==
    /\ dpc = "parsed"
    /\ Len(dump_words) = 2
    /\ dump_words[1].start = 90500
    /\ dump_words[2].start = 360000000
    /\ Len(dump_parsed) = 1

\* A token whose word begins with a space was parsed without the space.
C30_WordStripped ==
    /\ dpc = "parsed"
    /\ Len(dump_words) = 1
    /\ dump_words[1].start = 0
    /\ dump_words[1].word = <<" ", "hello">>
    /\ Len(dump_parsed) = 1
    /\ dump_parsed[1].word = <<"hello">>

=============================================================================
